---- MODULE Spec2Model ----
(***************************************************************************)
(* A model of the els directory lister (src/src/*.rs): the listing render  *)
(* pipeline (get_dir_listing, build_row, sort_rows, render_rows) and the   *)
(* string helpers it is built from.                                        *)
(*                                                                         *)
(* A Rust String is a sequence of Unicode scalar values (code points);     *)
(* chars().count() is Len, len() is the UTF-8 byte length Utf8Len.         *)
(***************************************************************************)
EXTENDS Integers, Sequences, FiniteSets, TLC

VARIABLES
    call,         \* the helper a test harness called, with its arguments
    ret,          \* what that helper returned
    fs,           \* the directory the start path names
    args,         \* Args: start_path, filter, full
    pc,           \* where run() stands
    listing,      \* the paths get_dir_listing returned
    file_rows,    \* the rows of get_files
    col_widths,   \* the ColPaddings render_rows computed
    out_text,     \* the string render_rows returned
    stderr,       \* what was written to standard error
    pager,        \* the pager process: "none", "spawn_failed", "exited"
    pager_stdin,  \* what was handed to write_all on the pager's stdin
    stdout,       \* what was printed to standard output
    display_calls, \* how many times display was called
    exit_code     \* the exit status of the process, once it has one

vars == <<call, ret, fs, args, pc, listing, file_rows, col_widths, out_text, stderr,
          pager, pager_stdin, stdout, display_calls, exit_code>>

(***************************************************************************)
(* Bounds of the model.                                                    *)
(***************************************************************************)
\* most entries in the listed directory
MaxEntries == 3
\* most rows handed to sort_rows on its own
MaxSortRows == 4
\* longest text handed to add_padding
MaxTextLen == 3
\* largest column width handed to add_padding
MaxWidth == 5
\* longest string handed to truncate_middle
MaxStrLen == 7
\* largest max_len handed to truncate_middle
MaxMaxLen == 6
\* sizes from 0 to this one are all handed to format_size_with_commas
MaxSmallSize == 1100
\* longest string handed to collapse_whitespace
MaxCollapseLen == 4
\* width in bits of usize in the model (the wrapped values are only ever
\* compared with string lengths, which are far below 2^UsizeBits)
UsizeBits == 16

(***************************************************************************)
(* Strings.                                                                *)
(***************************************************************************)
\* all sequences over S of length 0..n
RECURSIVE SeqsUpTo(_, _)
SeqsUpTo(S, n) ==
    IF n = 0 THEN {<<>>}
    ELSE LET shorter == SeqsUpTo(S, n - 1)
         IN  shorter \cup {Append(s, c) : s \in {t \in shorter : Len(t) = n - 1}, c \in S}

\* " ".repeat(n)
Spaces(n) == [i \in 1..n |-> 32]

\* s.chars().take(n)
Take(s, n) == SubSeq(s, 1, IF n < Len(s) THEN n ELSE Len(s))

\* s.chars().skip(n)
Skip(s, n) == IF n >= Len(s) THEN <<>> ELSE SubSeq(s, n + 1, Len(s))

\* number of bytes of the UTF-8 encoding of one scalar value
Utf8CharLen(c) == IF c < 128 THEN 1 ELSE IF c < 2048 THEN 2 ELSE IF c < 65536 THEN 3 ELSE 4

\* str::len(): the byte length
RECURSIVE Utf8Len(_)
Utf8Len(s) == IF s = <<>> THEN 0 ELSE Utf8CharLen(Head(s)) + Utf8Len(Tail(s))

(***************************************************************************)
(* Option<T>                                                               *)
(***************************************************************************)
None == [some |-> FALSE]
Some(v) == [some |-> TRUE, val |-> v]

\* the decimal digits of n (u64::to_string)
RECURSIVE DecStr(_)
DecStr(n) == IF n < 10 THEN <<48 + n>> ELSE DecStr(n \div 10) \o <<48 + (n % 10)>>

\* the strings of ss joined by sep (join)
RECURSIVE Join(_, _)
Join(ss, sep) ==
    IF ss = <<>> THEN <<>>
    ELSE IF Len(ss) = 1 THEN ss[1]
    ELSE ss[1] \o sep \o Join(Tail(ss), sep)

(***************************************************************************)
(* types.rs                                                                *)
(***************************************************************************)
FileType == {"File", "Directory"}
ContentType == {"Directory", "NotReadable", "Empty", "BinaryExecutable",
                "BinaryOther", "Text", "Other", "Unknown"}
Align == {"Left", "Right"}
ColType == {"Acls", "Owner", "FileType", "Size", "TimeIso", "SrcName",
            "TargetName", "Preview"}

(***************************************************************************)
(* utils.rs                                                                *)
(***************************************************************************)
\* char::is_whitespace: the Unicode White_Space code points
is_whitespace(c) ==
    \/ c \in 9..13
    \/ c \in {32, 133, 160, 5760, 8232, 8233, 8239, 8287, 12288}
    \/ c \in 8192..8202

\* char::is_control: the general category Cc
is_control(c) == c \in 0..31 \/ c \in 127..159

\* str::trim
RECURSIVE trim_start(_)
trim_start(s) ==
    IF s # <<>> /\ is_whitespace(Head(s)) THEN trim_start(Tail(s)) ELSE s

RECURSIVE trim_end(_)
trim_end(s) ==
    IF s # <<>> /\ is_whitespace(s[Len(s)]) THEN trim_end(SubSeq(s, 1, Len(s) - 1)) ELSE s

trim(s) == trim_end(trim_start(s))

\* one pass of the loop of collapse_whitespace: what character c adds to
\* result, given prev_was_space
collapse_push(c, prev_was_space) ==
    IF is_whitespace(c) \/ is_control(c) \/ c < 32
    THEN IF ~prev_was_space THEN <<32>> ELSE <<>>
    ELSE <<c>>

\* prev_was_space after the pass over c
collapse_flag(c) == is_whitespace(c) \/ is_control(c) \/ c < 32

\* the loop of collapse_whitespace over s[lo..hi], entered with
\* prev_was_space; the passes run left to right, split in halves to keep
\* the evaluation shallow
RECURSIVE collapse_loop(_, _, _, _)
collapse_loop(s, lo, hi, prev_was_space) ==
    IF lo > hi THEN <<>>
    ELSE IF lo = hi THEN collapse_push(s[lo], prev_was_space)
    ELSE LET mid == (lo + hi) \div 2
         IN  collapse_loop(s, lo, mid, prev_was_space)
             \o collapse_loop(s, mid + 1, hi, collapse_flag(s[mid]))

\* mutant: the result is not trimmed
collapse_whitespace_untrimmed(s) == collapse_loop(s, 1, Len(s), TRUE)

collapse_whitespace(s) == trim(collapse_loop(s, 1, Len(s), TRUE))

is_printable_ascii(b) == b \in 33..126 \/ b \in 9..13

\* the loop of format_size_with_commas from index i (0-based) on
RECURSIVE commas_loop(_, _, _)
commas_loop(chars, i, result) ==
    IF i >= Len(chars) THEN result
    ELSE LET sep == IF i > 0 /\ (Len(chars) - i) % 3 = 0 THEN <<44>> ELSE <<>>
         IN  commas_loop(chars, i + 1, result \o sep \o <<chars[i + 1]>>)

\* mutant: the groups of three digits are counted from the left
RECURSIVE commas_loop_from_left(_, _, _)
commas_loop_from_left(chars, i, result) ==
    IF i >= Len(chars) THEN result
    ELSE LET sep == IF i > 0 /\ i % 3 = 0 THEN <<44>> ELSE <<>>
         IN  commas_loop_from_left(chars, i + 1, result \o sep \o <<chars[i + 1]>>)

format_size_with_commas_from_left(size) == commas_loop_from_left(DecStr(size), 0, <<>>)

format_size_with_commas(size) == commas_loop(DecStr(size), 0, <<>>)

\* char::to_lowercase on the Basic Latin and Latin-1 letters
to_lower_char(c) ==
    IF c \in 65..90 \/ (c \in 192..222 /\ c # 215) THEN c + 32 ELSE c

\* str::to_lowercase
to_lowercase(s) == [i \in DOMAIN s |-> to_lower_char(s[i])]

\* str::contains
contains(s, sub) ==
    \E i \in 1..(Len(s) - Len(sub) + 1) : SubSeq(s, i, i + Len(sub) - 1) = sub

\* Ord for String: "Less", "Equal" or "Greater", by scalar value
RECURSIVE str_cmp(_, _)
str_cmp(a, b) ==
    IF a = <<>> /\ b = <<>> THEN "Equal"
    ELSE IF a = <<>> THEN "Less"
    ELSE IF b = <<>> THEN "Greater"
    ELSE IF Head(a) < Head(b) THEN "Less"
    ELSE IF Head(a) > Head(b) THEN "Greater"
    ELSE str_cmp(Tail(a), Tail(b))

\* truncate_middle.  usize arithmetic overflows: a build with overflow
\* checks (debug) panics, a build without (release) wraps.
UsizeMod == 2 ^ UsizeBits

\* "..."
ellipsis == <<46, 46, 46>>

\* a mutant: a two-dot ellipsis
truncate_middle_short_ellipsis(s, max_len, overflow_checks) ==
    LET char_count == Len(s)
    IN  IF char_count <= max_len THEN [ok |-> TRUE, val |-> s]
        ELSE IF max_len < 3 THEN [ok |-> FALSE, val |-> <<>>]
        ELSE LET available == max_len - 3
                 front_len == (available + 1) \div 2
                 back_len == available \div 2
             IN  [ok |-> TRUE,
                  val |-> Take(s, front_len) \o <<46, 46>> \o Skip(s, char_count - back_len)]

\* the result is [ok |-> TRUE, val |-> the String], or ok = FALSE on a panic
truncate_middle(s, max_len, overflow_checks) ==
    LET char_count == Len(s)
        ellipsis_len == Utf8Len(ellipsis)
    IN  IF char_count <= max_len THEN [ok |-> TRUE, val |-> s]
        ELSE IF overflow_checks /\ max_len < ellipsis_len
        THEN \* max_len - ellipsis_len: attempt to subtract with overflow
             [ok |-> FALSE, val |-> <<>>]
        ELSE LET available == (max_len - ellipsis_len) % UsizeMod
                 front_len == ((available + 1) % UsizeMod) \div 2
                 back_len == available \div 2
                 front == Take(s, front_len)
                 back == Skip(s, (char_count - back_len) % UsizeMod)
             IN  [ok |-> TRUE, val |-> front \o ellipsis \o back]

(***************************************************************************)
(* render.rs: add_padding                                                  *)
(***************************************************************************)
\* a mutant: pads on the wrong side
add_padding_swapped(text, width, align) ==
    IF text = <<>> THEN <<32>>
    ELSE IF Len(text) >= width THEN text
    ELSE IF align = "Left" THEN Spaces(width - Len(text)) \o text
         ELSE text \o Spaces(width - Len(text))

add_padding(text, width, align) ==
    IF text = <<>> THEN <<32>>
    ELSE LET text_len == Len(text)
         IN  IF text_len >= width THEN text
             ELSE LET pad_amount == width - text_len
                      padding == Spaces(pad_amount)
                  IN  IF align = "Left" THEN text \o padding
                      ELSE padding \o text

(***************************************************************************)
(* The filesystem.  A directory is the sequence of its entries in          *)
(* enumeration order; an entry e says what the system calls answer for     *)
(* its path:                                                               *)
(*   name      the entry name                                              *)
(*   statable  symlink_metadata succeeds (the entry still exists)          *)
(*   symlink   the path itself is a symbolic link, link its target text    *)
(*   resolves  "dir", "file" or "none": what the path resolves to          *)
(*   lstat     the StatResult of the path itself (symlink_metadata)        *)
(*   stat      the metadata of what the path resolves to (fs::metadata)    *)
(*   readable  opening for reading (or read_dir) succeeds                  *)
(*   writable  opening for writing succeeds                                *)
(*   bytes     the content of the file the path resolves to; the bytes of  *)
(*             the model are ASCII or 0xFF, which no UTF-8 text holds      *)
(*   children  the entries of the directory the path resolves to, each     *)
(*             [name, is_dir]                                              *)
(*   sniff     what the content sniffer answers: err, or a kind            *)
(***************************************************************************)
\* std::str::from_utf8 succeeds
utf8_valid(bytes) == \A i \in DOMAIN bytes : bytes[i] < 128

\* String::from_utf8_lossy: U+FFFD for every byte that is no UTF-8
from_utf8_lossy(bytes) ==
    [i \in DOMAIN bytes |-> IF bytes[i] < 128 THEN bytes[i] ELSE 65533]

\* what a path that names nothing answers
Absent(name) ==
    [name |-> name, statable |-> FALSE, symlink |-> FALSE, link |-> <<>>,
     resolves |-> "none",
     lstat |-> [st_mode |-> 0, st_mtime |-> 0, st_uid |-> 0, st_gid |-> 0, st_size |-> 0],
     stat |-> [st_mode |-> 0, st_mtime |-> 0, st_uid |-> 0, st_gid |-> 0, st_size |-> 0],
     readable |-> FALSE, writable |-> FALSE, bytes |-> <<>>, children |-> <<>>,
     sniff |-> [err |-> TRUE, is_text |-> FALSE, is_executable |-> FALSE]]

\* the final component of a path (Path::file_name for a path that does not
\* end in "..")
RECURSIVE file_name(_)
file_name(path) ==
    IF \E i \in DOMAIN path : path[i] = 47
    THEN file_name(Tail(path))
    ELSE path

\* the entry of directory dir that path fname names
Lookup(dir, fname) ==
    IF \E i \in DOMAIN dir : dir[i].name = file_name(fname)
    THEN dir[CHOOSE i \in DOMAIN dir : dir[i].name = file_name(fname)]
    ELSE Absent(file_name(fname))

\* the invoking process: getuid(), getgid()
Me == [uid |-> 1000, gid |-> 1000]

(***************************************************************************)
(* permissions.rs                                                          *)
(***************************************************************************)
\* the tables parse_passwd and parse_group read
UserGroupCache_new ==
    [users |-> [u \in {0} |-> <<114, 111, 111, 116>>],
     groups |-> [g \in {0} |-> <<119, 104, 101, 101, 108>>]]

get_user_name(cache, uid) ==
    IF uid \in DOMAIN cache.users THEN cache.users[uid] ELSE DecStr(uid)

get_group_name(cache, gid) ==
    IF gid \in DOMAIN cache.groups THEN cache.groups[gid] ELSE DecStr(gid)

\* (mode >> n) & 0o7
Bits3(mode, n) == (mode \div (2 ^ n)) % 8

\* mode & bit # 0, bit a power of two
HasBit(mode, bit) == (mode \div bit) % 2 = 1

\* mutant: the owner digit is not masked to three bits
get_acls_all_unmasked(mode) ==
    DecStr((mode \div 64) % 10) \o DecStr(Bits3(mode, 3)) \o DecStr(Bits3(mode, 0))

get_acls_all(mode) ==
    LET user == Bits3(mode, 6)
        group == Bits3(mode, 3)
        other == Bits3(mode, 0)
    IN  DecStr(user) \o DecStr(group) \o DecStr(other)

\* mutant: any of the three execute bits counts, whoever asks
is_executable_any_bit(e) ==
    IF e.resolves = "none" THEN FALSE
    ELSE HasBit(e.stat.st_mode, 64) \/ HasBit(e.stat.st_mode, 8) \/ HasBit(e.stat.st_mode, 1)

is_executable(e) ==
    IF e.resolves = "none" THEN FALSE
    ELSE LET mode == e.stat.st_mode
             file_uid == e.stat.st_uid
             file_gid == e.stat.st_gid
         IN  IF Me.uid = file_uid THEN HasBit(mode, 64)
             ELSE IF Me.gid = file_gid THEN HasBit(mode, 8)
             ELSE HasBit(mode, 1)

get_acls_me(e) ==
    LET r == IF e.readable THEN 4 ELSE 0
        w == IF e.writable THEN 2 ELSE 0
        x == IF is_executable(e) THEN 1 ELSE 0
    IN  DecStr(r + w + x)

col_acls(e, mode) ==
    LET all_acls == get_acls_all(mode)
        me_acls == get_acls_me(e)
    IN  all_acls \o <<32>> \o me_acls

(***************************************************************************)
(* preview.rs                                                              *)
(***************************************************************************)
PREVIEW_READ_LEN == 256
PREVIEW_TRUNC_LEN == 20
DIR_PREVIEW_MAX_FILES == 32
DIR_PREVIEW_TRUNC_LEN == 20

\* str::rfind(' '): the last position of a space, 0 when there is none
rfind_space(s) ==
    IF \E i \in DOMAIN s : s[i] = 32
    THEN CHOOSE i \in DOMAIN s : s[i] = 32 /\ \A j \in DOMAIN s : s[j] = 32 => j <= i
    ELSE 0

\* mutant: the suffix is added from DIR_PREVIEW_MAX_FILES children on
preview_directory_suffix_at_max(e) ==
    IF ~(e.resolves = "dir" /\ e.readable) THEN <<45>>
    ELSE LET all_files == [i \in DOMAIN e.children |->
                             IF e.children[i].is_dir
                             THEN Append(e.children[i].name, 47)
                             ELSE e.children[i].name]
             truncated == Take(Join(Take(all_files, DIR_PREVIEW_MAX_FILES), <<32>>),
                               DIR_PREVIEW_TRUNC_LEN)
             lastindex == rfind_space(truncated)
             cleaned == IF lastindex > 1 THEN SubSeq(truncated, 1, lastindex - 1)
                        ELSE truncated
         IN  IF Len(all_files) >= DIR_PREVIEW_MAX_FILES
             THEN cleaned \o <<32, 46, 46, 46>> ELSE cleaned

preview_directory(e) ==
    IF ~(e.resolves = "dir" /\ e.readable) THEN <<45>>
    ELSE LET all_files == [i \in DOMAIN e.children |->
                             IF e.children[i].is_dir
                             THEN Append(e.children[i].name, 47)
                             ELSE e.children[i].name]
             all_len == Len(all_files)
             sub_files == Take(all_files, DIR_PREVIEW_MAX_FILES)
             sub_len == Len(sub_files)
             txt == Join(sub_files, <<32>>)
             truncated == Take(txt, DIR_PREVIEW_TRUNC_LEN)
             lastindex == rfind_space(truncated)
             cleaned == IF lastindex > 1 THEN SubSeq(truncated, 1, lastindex - 1)
                        ELSE truncated
         IN  IF sub_len < all_len THEN cleaned \o <<32, 46, 46, 46>> ELSE cleaned

\* mutant: the space byte is kept with the printable bytes
preview_binary_keep_space(e) ==
    IF ~e.readable \/ e.resolves = "dir" \/ e.bytes = <<>> THEN <<32>>
    ELSE LET keep(b) == is_printable_ascii(b) \/ b = 32
         IN  Take(collapse_whitespace(SelectSeq(Take(e.bytes, PREVIEW_READ_LEN), keep)),
                  PREVIEW_TRUNC_LEN)

preview_binary(e) ==
    IF ~e.readable THEN <<32>>
    ELSE IF e.resolves = "dir" THEN <<32>>
    ELSE LET buffer == Take(e.bytes, PREVIEW_READ_LEN)
             bytes_read == Len(buffer)
         IN  IF bytes_read = 0 THEN <<32>>
             ELSE LET printable == SelectSeq(buffer, is_printable_ascii)
                      cleaned == collapse_whitespace(printable)
                  IN  Take(cleaned, PREVIEW_TRUNC_LEN)

\* mutant: an empty result is replaced by the one-space placeholder
preview_text_placeholder(e) ==
    IF ~e.readable \/ e.resolves = "dir" THEN <<32>>
    ELSE LET cleaned == collapse_whitespace(Take(from_utf8_lossy(e.bytes), PREVIEW_READ_LEN))
         IN  IF cleaned = <<>> THEN <<32>> ELSE Take(cleaned, PREVIEW_TRUNC_LEN)

\* mutant: the whole content is collapsed, not its first 256 characters
preview_text_whole_content(e) ==
    IF ~e.readable \/ e.resolves = "dir" THEN <<32>>
    ELSE LET content == IF utf8_valid(e.bytes) THEN e.bytes
                        ELSE from_utf8_lossy(Take(e.bytes, PREVIEW_READ_LEN))
         IN  IF content = <<>> THEN <<32>>
             ELSE Take(collapse_whitespace(content), PREVIEW_TRUNC_LEN)

preview_text(e) ==
    IF ~e.readable \/ e.resolves = "dir" THEN <<32>>
    ELSE LET content == IF utf8_valid(e.bytes) THEN e.bytes
                        ELSE from_utf8_lossy(Take(e.bytes, PREVIEW_READ_LEN))
         IN  IF content = <<>> THEN <<32>>
             ELSE LET truncated == Take(content, PREVIEW_READ_LEN)
                      cleaned == collapse_whitespace(truncated)
                  IN  Take(cleaned, PREVIEW_TRUNC_LEN)

(***************************************************************************)
(* file_info.rs                                                            *)
(***************************************************************************)
get_stat_result(e) == IF e.statable THEN Some(e.lstat) ELSE None

\* mutant: a symbolic link is never followed
get_file_type_no_follow(e) ==
    IF e.resolves = "dir" /\ ~e.symlink THEN "Directory" ELSE "File"

\* a symbolic link is canonicalized first, the path itself standing in when
\* that fails; is_dir then follows links anyway
get_file_type(e) ==
    IF e.resolves = "dir" THEN "Directory" ELSE "File"

get_file_info_via_crate(e) ==
    IF e.sniff.err THEN "Unknown"
    ELSE IF e.sniff.is_text THEN "Text"
    ELSE IF e.sniff.is_executable THEN "BinaryExecutable"
    ELSE "BinaryOther"

\* mutant: the size is looked at before the file is opened
get_content_type_size_first(e, stat_res) ==
    IF e.resolves = "dir" THEN "Directory"
    ELSE IF stat_res.st_size = 0 THEN "Empty"
    ELSE IF ~e.readable THEN "NotReadable"
    ELSE get_file_info_via_crate(e)

get_content_type(e, stat_res) ==
    IF e.resolves = "dir" THEN "Directory"
    ELSE IF ~e.readable THEN "NotReadable"
    ELSE IF stat_res.st_size = 0 THEN "Empty"
    ELSE get_file_info_via_crate(e)

get_row_info(dir, fname) ==
    LET e == Lookup(dir, fname)
        stat_res == get_stat_result(e)
    IN  IF ~stat_res.some THEN None
        ELSE Some([fname |-> fname,
                   ftype |-> get_file_type(e),
                   stat_res |-> stat_res.val,
                   content_type |-> get_content_type(e, stat_res.val),
                   time_epoch |-> DecStr(stat_res.val.st_mtime)])

(***************************************************************************)
(* utils.rs: format_timestamp.  localtime_r is modelled for the UTC zone.  *)
(***************************************************************************)
\* the broken-down time of secs >= 0 seconds since the epoch
localtime_r(secs) ==
    LET days == secs \div 86400
        rem == secs % 86400
        z == days + 719468
        era == z \div 146097
        doe == z - era * 146097
        yoe == (doe - doe \div 1460 + doe \div 36524 - doe \div 146096) \div 365
        doy == doe - (365 * yoe + yoe \div 4 - yoe \div 100)
        mp == (5 * doy + 2) \div 153
        d == doy - (153 * mp + 2) \div 5 + 1
        m == IF mp < 10 THEN mp + 3 ELSE mp - 9
        y == yoe + era * 400 + (IF m <= 2 THEN 1 ELSE 0)
    IN  [tm_year |-> y - 1900, tm_mon |-> m - 1, tm_mday |-> d,
         tm_hour |-> rem \div 3600, tm_min |-> (rem % 3600) \div 60, tm_sec |-> rem % 60]

\* {:0w}: the decimal digits of n, zero-padded on the left to w characters
RECURSIVE ZeroPad(_, _)
ZeroPad(digits, w) == IF Len(digits) >= w THEN digits ELSE ZeroPad(<<48>> \o digits, w)

format_timestamp(secs) ==
    LET tm == localtime_r(secs)
    IN  ZeroPad(DecStr(tm.tm_year + 1900), 4) \o <<45>>
        \o ZeroPad(DecStr(tm.tm_mon + 1), 2) \o <<45>>
        \o ZeroPad(DecStr(tm.tm_mday), 2) \o <<32>>
        \o ZeroPad(DecStr(tm.tm_hour), 2) \o <<58>>
        \o ZeroPad(DecStr(tm.tm_min), 2) \o <<58>>
        \o ZeroPad(DecStr(tm.tm_sec), 2)

(***************************************************************************)
(* columns.rs.  A renderer reads the filesystem as it is when it runs:     *)
(* e is the entry its path names then.                                     *)
(***************************************************************************)
\* mutant: Preview is not flagged only_full
get_col_defs_preview_always ==
    << [name |-> "Acls", align |-> "Left", only_full |-> TRUE],
       [name |-> "Owner", align |-> "Left", only_full |-> TRUE],
       [name |-> "FileType", align |-> "Left", only_full |-> TRUE],
       [name |-> "Size", align |-> "Right", only_full |-> FALSE],
       [name |-> "TimeIso", align |-> "Left", only_full |-> FALSE],
       [name |-> "SrcName", align |-> "Left", only_full |-> FALSE],
       [name |-> "TargetName", align |-> "Left", only_full |-> FALSE],
       [name |-> "Preview", align |-> "Left", only_full |-> FALSE] >>

get_col_defs ==
    << [name |-> "Acls", align |-> "Left", only_full |-> TRUE],
       [name |-> "Owner", align |-> "Left", only_full |-> TRUE],
       [name |-> "FileType", align |-> "Left", only_full |-> TRUE],
       [name |-> "Size", align |-> "Right", only_full |-> FALSE],
       [name |-> "TimeIso", align |-> "Left", only_full |-> FALSE],
       [name |-> "SrcName", align |-> "Left", only_full |-> FALSE],
       [name |-> "TargetName", align |-> "Left", only_full |-> FALSE],
       [name |-> "Preview", align |-> "Left", only_full |-> TRUE] >>

render_col_acls(e, info) == col_acls(e, info.stat_res.st_mode)

render_col_owner(info, cache) ==
    LET user == get_user_name(cache, info.stat_res.st_uid)
        group == get_group_name(cache, info.stat_res.st_gid)
    IN  user \o <<58>> \o group

render_col_filetype(info) ==
    CASE info.content_type = "Directory" -> <<100>>
      [] info.content_type = "BinaryExecutable" -> <<101>>
      [] info.content_type = "BinaryOther" -> <<98>>
      [] info.content_type = "Text" -> <<116>>
      [] OTHER -> <<117>>

get_subfile_count(e) ==
    IF e.symlink /\ e.resolves = "none" THEN <<45>>
    ELSE IF e.resolves # "dir" THEN <<45>>
    ELSE IF e.readable THEN DecStr(Len(e.children))
    ELSE <<45>>

render_col_size(e, info) ==
    IF info.ftype = "Directory" THEN get_subfile_count(e)
    ELSE format_size_with_commas(info.stat_res.st_size)

render_col_timeiso(info) == format_timestamp(info.stat_res.st_mtime)

render_col_srcname(info) ==
    LET name == file_name(info.fname)
    IN  IF info.ftype = "Directory" THEN Append(name, 47) ELSE name

\* the width TargetName is cut to
TARGETNAME_MAX_LEN == 25

render_col_targetname(e, info) ==
    IF ~e.symlink THEN <<32>>
    ELSE LET target == e.link
             full == IF info.ftype = "Directory" THEN Append(target, 47) ELSE target
         IN  truncate_middle(full, TARGETNAME_MAX_LEN, FALSE).val

render_col_preview(e, info) ==
    CASE info.content_type = "Directory" -> preview_directory(e)
      [] info.content_type = "BinaryOther" -> preview_binary(e)
      [] info.content_type = "Text" -> preview_text(e)
      [] OTHER -> <<32>>

(***************************************************************************)
(* colors.rs                                                               *)
(***************************************************************************)
\* ESC [ n m
Ansi(n) == <<27, 91>> \o DecStr(n) \o <<109>>
ANSI_MAGENTA == Ansi(35)
ANSI_GREEN == Ansi(32)
ANSI_LIGHT_GREEN == Ansi(92)
ANSI_LIGHT_CYAN == Ansi(96)
ANSI_DARK_GRAY == Ansi(30)
ANSI_LIGHT_RED == Ansi(91)
ANSI_BLUE == Ansi(34)
ANSI_END == Ansi(0)

add_color(text, color_code) == color_code \o text \o ANSI_END

get_color_for_field(row, field) ==
    CASE field = "TargetName" -> ANSI_LIGHT_CYAN
      [] field = "SrcName" ->
            IF row.info.ftype = "Directory" THEN ANSI_LIGHT_RED ELSE ANSI_LIGHT_GREEN
      [] field = "TimeIso" -> ANSI_BLUE
      [] field = "Size" ->
            IF row.info.ftype = "Directory" THEN ANSI_MAGENTA ELSE ANSI_GREEN
      [] OTHER -> ANSI_DARK_GRAY

(***************************************************************************)
(* render.rs                                                               *)
(***************************************************************************)
Max(a, b) == IF a >= b THEN a ELSE b

ColPaddings_default ==
    [acls |-> 0, owner |-> 0, filetype |-> 0, size |-> 0, timeiso |-> 0,
     srcname |-> 0, targetname |-> 0, preview |-> 0]

\* mutant: a width is the length in the row at hand, not the largest so far
paddings_step_last(paddings, row) ==
    [acls |-> Len(row.render.acls),
     owner |-> Len(row.render.owner),
     filetype |-> Len(row.render.filetype),
     size |-> Len(row.render.size),
     timeiso |-> Len(row.render.timeiso),
     srcname |-> Len(row.render.srcname),
     targetname |-> Len(row.render.targetname),
     preview |-> Len(row.render.preview)]

\* one pass of the loop of get_col_paddings
paddings_step(paddings, row) ==
    [acls |-> Max(paddings.acls, Len(row.render.acls)),
     owner |-> Max(paddings.owner, Len(row.render.owner)),
     filetype |-> Max(paddings.filetype, Len(row.render.filetype)),
     size |-> Max(paddings.size, Len(row.render.size)),
     timeiso |-> Max(paddings.timeiso, Len(row.render.timeiso)),
     srcname |-> Max(paddings.srcname, Len(row.render.srcname)),
     targetname |-> Max(paddings.targetname, Len(row.render.targetname)),
     preview |-> Max(paddings.preview, Len(row.render.preview))]

RECURSIVE paddings_loop(_, _)
paddings_loop(rows, paddings) ==
    IF rows = <<>> THEN paddings
    ELSE paddings_loop(Tail(rows), paddings_step(paddings, Head(rows)))

\* mutant: widths counted in bytes (len()) instead of characters
get_col_paddings_bytes(rows) ==
    LET W(col) == IF rows = <<>> THEN 0
                  ELSE LET m == CHOOSE i \in DOMAIN rows :
                                  \A j \in DOMAIN rows :
                                      Utf8Len(rows[j].render[col]) <= Utf8Len(rows[i].render[col])
                       IN  Utf8Len(rows[m].render[col])
    IN  [acls |-> W("acls"), owner |-> W("owner"), filetype |-> W("filetype"),
         size |-> W("size"), timeiso |-> W("timeiso"), srcname |-> W("srcname"),
         targetname |-> W("targetname"), preview |-> W("preview")]

get_col_paddings(rows) == paddings_loop(rows, ColPaddings_default)

\* mutant: the full-mode columns come last
get_cols_listing_full_last(full) ==
    <<"Size", "TimeIso", "SrcName", "TargetName">>
    \o (IF full THEN <<"Acls", "Owner", "FileType", "Preview">> ELSE <<>>)

get_cols_listing(full) ==
    (IF full THEN <<"Acls", "Owner", "FileType">> ELSE <<>>)
    \o <<"Size", "TimeIso", "SrcName", "TargetName">>
    \o (IF full THEN <<"Preview">> ELSE <<>>)

get_col_value(row, col) ==
    CASE col = "Acls" -> row.render.acls
      [] col = "Owner" -> row.render.owner
      [] col = "FileType" -> row.render.filetype
      [] col = "Size" -> row.render.size
      [] col = "TimeIso" -> row.render.timeiso
      [] col = "SrcName" -> row.render.srcname
      [] col = "TargetName" -> row.render.targetname
      [] col = "Preview" -> row.render.preview

get_col_padding(paddings, col) ==
    CASE col = "Acls" -> paddings.acls
      [] col = "Owner" -> paddings.owner
      [] col = "FileType" -> paddings.filetype
      [] col = "Size" -> paddings.size
      [] col = "TimeIso" -> paddings.timeiso
      [] col = "SrcName" -> paddings.srcname
      [] col = "TargetName" -> paddings.targetname
      [] col = "Preview" -> paddings.preview

get_col_align(col) == IF col = "Size" THEN "Right" ELSE "Left"

make_pretty(row, col, paddings) ==
    LET value == get_col_value(row, col)
        width == get_col_padding(paddings, col)
        align == get_col_align(col)
        color == get_color_for_field(row, col)
        padded == add_padding(value, width, align)
    IN  add_color(padded, color)

render_cols(row, paddings, full) ==
    LET margin == <<32, 32>>
        cols == get_cols_listing(full)
        rendered == [i \in DOMAIN cols |-> make_pretty(row, cols[i], paddings)]
    IN  margin \o Join(rendered, margin)

\* render_rows, given the paddings it computed
render_rows_with(rows, paddings, full) ==
    LET rendered == [i \in DOMAIN rows |-> render_cols(rows[i], paddings, full)]
    IN  Join(rendered, <<10>>)

render_rows(rows, full) == render_rows_with(rows, get_col_paddings(rows), full)

(***************************************************************************)
(* main.rs                                                                 *)
(***************************************************************************)
\* str::trim_end_matches('/')
RECURSIVE trim_end_slashes(_)
trim_end_slashes(s) ==
    IF s # <<>> /\ s[Len(s)] = 47 THEN trim_end_slashes(SubSeq(s, 1, Len(s) - 1)) ELSE s

\* the prefix get_dir_listing puts before every entry name
real_start_of(start) ==
    LET trimmed == trim_end_slashes(start)
    IN  IF Take(trimmed, 2) = <<46, 47>> /\ Utf8Len(trimmed) > 2 THEN Skip(trimmed, 2)
        ELSE IF trimmed = <<46>> \/ trimmed = <<>> THEN <<>>
        ELSE trimmed

\* the closure of get_dir_listing's filter_map, on the names still to visit
RECURSIVE listing_loop(_, _, _)
listing_loop(names, real_start, filter) ==
    IF names = <<>> THEN <<>>
    ELSE LET name == Head(names)
             rest == listing_loop(Tail(names), real_start, filter)
         IN  IF filter.some /\ ~contains(to_lowercase(name), to_lowercase(filter.val))
             THEN rest
             ELSE IF real_start = <<>> THEN <<name>> \o rest
             ELSE <<real_start \o <<47>> \o name>> \o rest

\* mutant: the filter is matched against the name as it is spelled
get_dir_listing_case_sensitive(dir, start, filter) ==
    IF ~dir.exists \/ ~dir.is_dir \/ ~dir.readable THEN None
    ELSE LET names == [i \in DOMAIN dir.entries |-> dir.entries[i].name]
             keep(n) == ~filter.some \/ contains(n, filter.val)
             kept == SelectSeq(names, keep)
         IN  Some([i \in DOMAIN kept |->
                      IF real_start_of(start) = <<>> THEN kept[i]
                      ELSE real_start_of(start) \o <<47>> \o kept[i]])

\* mutant: a start path that names no directory lists as an empty directory
get_dir_listing_lenient(dir, start, filter) ==
    IF ~dir.exists \/ ~dir.is_dir \/ ~dir.readable THEN Some(<<>>)
    ELSE LET names == [i \in DOMAIN dir.entries |-> dir.entries[i].name]
         IN  Some(listing_loop(names, real_start_of(start), filter))

get_dir_listing(dir, start, filter) ==
    IF ~dir.exists \/ ~dir.is_dir THEN None
    ELSE IF ~dir.readable THEN None
    ELSE LET names == [i \in DOMAIN dir.entries |-> dir.entries[i].name]
         IN  Some(listing_loop(names, real_start_of(start), filter))

\* build_row when the directory holds `before` while get_row_info runs and
\* `after` while the columns are rendered: the renderers are handed info and
\* go back to the path for whatever else they need
build_row_between(before, after, fname, cache, full) ==
    LET info == get_row_info(before, fname)
        e == Lookup(after, fname)
    IN  IF ~info.some THEN None
        ELSE Some([info |-> info.val,
                   render |->
                     [acls |-> IF full THEN render_col_acls(e, info.val) ELSE <<32>>,
                      owner |-> IF full THEN render_col_owner(info.val, cache) ELSE <<32>>,
                      filetype |-> IF full THEN render_col_filetype(info.val) ELSE <<32>>,
                      size |-> render_col_size(e, info.val),
                      timeiso |-> render_col_timeiso(info.val),
                      srcname |-> render_col_srcname(info.val),
                      targetname |-> render_col_targetname(e, info.val),
                      preview |-> IF full THEN render_col_preview(e, info.val) ELSE <<32>>]])

\* mutant: in compact mode the columns left out are empty strings
build_row_compact_empty(dir, fname, cache, full) ==
    LET row == build_row_between(dir.entries, dir.entries, fname, cache, full)
    IN  IF full \/ ~row.some THEN row
        ELSE Some([row.val EXCEPT !.render.acls = <<>>, !.render.owner = <<>>,
                                  !.render.filetype = <<>>, !.render.preview = <<>>])

\* build_row while nothing else touches the directory
build_row(dir, fname, cache, full) ==
    build_row_between(dir.entries, dir.entries, fname, cache, full)

\* mutant: compares the final path components only
row_cmp_basename(a, b) ==
    LET a_is_dir == a.info.ftype = "Directory"
        b_is_dir == b.info.ftype = "Directory"
    IN  IF a_is_dir /\ ~b_is_dir THEN "Less"
        ELSE IF ~a_is_dir /\ b_is_dir THEN "Greater"
        ELSE str_cmp(to_lowercase(file_name(a.info.fname)),
                     to_lowercase(file_name(b.info.fname)))

\* mutant: a directory is Less than anything, another directory too
row_cmp_dir_always_less(a, b) ==
    IF a.info.ftype = "Directory" THEN "Less"
    ELSE IF b.info.ftype = "Directory" THEN "Greater"
    ELSE str_cmp(to_lowercase(a.info.fname), to_lowercase(b.info.fname))

\* the comparator sort_rows hands to sort_by
row_cmp(a, b) ==
    LET a_is_dir == a.info.ftype = "Directory"
        b_is_dir == b.info.ftype = "Directory"
    IN  IF a_is_dir /\ ~b_is_dir THEN "Less"
        ELSE IF ~a_is_dir /\ b_is_dir THEN "Greater"
        ELSE str_cmp(to_lowercase(a.info.fname), to_lowercase(b.info.fname))

\* mutant: x goes before the elements it compares Equal to
RECURSIVE sort_insert_before_equals(_, _)
sort_insert_before_equals(sorted, x) ==
    IF sorted = <<>> THEN <<x>>
    ELSE IF row_cmp(sorted[Len(sorted)], x) # "Less"
    THEN Append(sort_insert_before_equals(SubSeq(sorted, 1, Len(sorted) - 1), x),
                sorted[Len(sorted)])
    ELSE Append(sorted, x)

\* slice::sort_by is a stable sort: x goes after every element that does
\* not compare Greater than it
RECURSIVE sort_insert(_, _)
sort_insert(sorted, x) ==
    IF sorted = <<>> THEN <<x>>
    ELSE IF row_cmp(sorted[Len(sorted)], x) = "Greater"
    THEN Append(sort_insert(SubSeq(sorted, 1, Len(sorted) - 1), x), sorted[Len(sorted)])
    ELSE Append(sorted, x)

RECURSIVE sort_rows(_)
sort_rows(rows) ==
    IF rows = <<>> THEN <<>>
    ELSE sort_insert(sort_rows(SubSeq(rows, 1, Len(rows) - 1)), rows[Len(rows)])

\* the filter_map of get_files over the paths still to visit
RECURSIVE build_rows(_, _, _, _)
build_rows(dir, paths, cache, full) ==
    IF paths = <<>> THEN <<>>
    ELSE LET row == build_row(dir, Head(paths), cache, full)
             rest == build_rows(dir, Tail(paths), cache, full)
         IN  IF row.some THEN <<row.val>> \o rest ELSE rest

get_files(dir, start, full, filter) ==
    LET paths == get_dir_listing(dir, start, filter)
    IN  IF ~paths.some THEN None
        ELSE Some(sort_rows(build_rows(dir, paths.val, UserGroupCache_new, full)))

(***************************************************************************)
(* The entries the model's directories hold.                               *)
(***************************************************************************)
StatOf(mode, mtime, uid, gid, size) ==
    [st_mode |-> mode, st_mtime |-> mtime, st_uid |-> uid, st_gid |-> gid, st_size |-> size]

Kind(text, exec) ==
    [err |-> FALSE, is_text |-> text, is_executable |-> exec]
SniffErr == [err |-> TRUE, is_text |-> FALSE, is_executable |-> FALSE]
Sniffs == {SniffErr} \cup {Kind(t, x) : t \in BOOLEAN, x \in BOOLEAN}

\* a regular file
RegularFile(name, readable, writable, bytes, sniff, st) ==
    [name |-> name, statable |-> TRUE, symlink |-> FALSE, link |-> <<>>,
     resolves |-> "file",
     lstat |-> [st EXCEPT !.st_size = Len(bytes)],
     stat |-> [st EXCEPT !.st_size = Len(bytes)],
     readable |-> readable, writable |-> writable, bytes |-> bytes,
     children |-> <<>>, sniff |-> sniff]

\* a directory: it cannot be opened for writing
Directory(name, readable, children, st) ==
    [name |-> name, statable |-> TRUE, symlink |-> FALSE, link |-> <<>>,
     resolves |-> "dir", lstat |-> st, stat |-> st,
     readable |-> readable, writable |-> FALSE, bytes |-> <<>>,
     children |-> children, sniff |-> SniffErr]

\* a symbolic link with target text link that resolves to what target is
SymlinkTo(name, link, target) ==
    [target EXCEPT !.name = name, !.symlink = TRUE, !.link = link,
                   !.lstat = StatOf(41471, target.lstat.st_mtime, target.lstat.st_uid,
                                    target.lstat.st_gid, Utf8Len(link))]

\* a symbolic link whose target does not exist
BrokenSymlink(name, link) ==
    [Absent(name) EXCEPT !.statable = TRUE, !.symlink = TRUE, !.link = link,
                         !.lstat = StatOf(41471, 0, Me.uid, Me.gid, Utf8Len(link))]

\* mode, owner and time of the files and of the directories of the model:
\* 0o100644 of the invoker, 0o100755 of root, 0o100070 of a group member,
\* 0o100611 of the invoker, 0o100601 of a group member, 0o40755.  Whether an open succeeds is not decided by the mode alone
\* (access lists, read-only mounts), so readable and writable are free.
FileStats == {StatOf(33188, 1704067200, Me.uid, Me.gid, 0),
              StatOf(33261, 86399, 0, 0, 0),
              StatOf(32824, 0, 0, Me.gid, 0),
              StatOf(33161, 0, Me.uid, Me.gid, 0),
              StatOf(33153, 0, 0, Me.gid, 0)}
DirStats == {StatOf(16877, 1704067200, Me.uid, Me.gid, 4096),
             StatOf(16877, 951782400, 0, 0, 4096)}

\* "word " 80 times, the 400 bytes of the spec's scenario C
WordWord == [i \in 1..400 |-> <<119, 111, 114, 100, 32>>[((i - 1) % 5) + 1]]

\* file contents: none; unprintable bytes; ASCII whitespace controls; blank
\* text; "h  i"; "hi" after a byte that is no UTF-8; "h" after
\* PREVIEW_READ_LEN blanks; "a", tab, "b", two newlines, "c"; 19 times "a",
\* tab, "bc"; "word " 80 times
FileContents == {<<>>, <<0, 1>>, <<9, 10>>, <<32, 10>>, <<104, 32, 32, 105>>,
                 <<255, 104, 105>>, Spaces(PREVIEW_READ_LEN) \o <<104>>,
                 <<97, 9, 98, 10, 10, 99>>,
                 [i \in 1..19 |-> 97] \o <<9, 98, 99>>,
                 WordWord}

Child(name, is_dir) == [name |-> name, is_dir |-> is_dir]

\* n children named by their number
ManyChildren(n) == [i \in 1..n |-> Child(DecStr(i), FALSE)]

\* directory contents: none; "x"; " x", whose only space comes first;
\* "sub/ y"; two names of 12 characters, so that the 20-character cut falls
\* inside the second; DIR_PREVIEW_MAX_FILES children and one more
DirContents ==
    {<<>>,
     <<Child(<<120>>, FALSE)>>,
     <<Child(<<32, 120>>, FALSE)>>,
     ManyChildren(DIR_PREVIEW_MAX_FILES),
     <<Child(<<115, 117, 98>>, TRUE), Child(<<121>>, FALSE)>>,
     <<Child(<<97, 97, 97, 97, 97, 97, 97, 97, 97, 97, 97, 97>>, FALSE),
       Child(<<98, 98, 98, 98, 98, 98, 98, 98, 98, 98, 98, 98>>, FALSE)>>,
     ManyChildren(DIR_PREVIEW_MAX_FILES + 1)}

\* link texts: "t", and 26 characters "/aaaaaaaaaaaaaaaaaaaaaaaaz"
ShortLink == <<116>>
LongLink == <<47>> \o [i \in 1..24 |-> 97] \o <<122>>

\* every kind of entry, under one name
EntryPool ==
    LET n == <<233, 97>>
        files == {RegularFile(n, r, w, b, k, st) :
                    r \in BOOLEAN, w \in BOOLEAN, b \in FileContents,
                    k \in Sniffs, st \in FileStats}
        dirs == {Directory(n, r, c, st) : r \in BOOLEAN, c \in DirContents, st \in DirStats}
        linked == {f \in files : f.lstat.st_uid = Me.uid /\ f.sniff \in {SniffErr, Kind(TRUE, FALSE)}}
                  \cup {d \in dirs : d.lstat.st_uid = Me.uid}
    IN  files \cup dirs
        \cup {SymlinkTo(n, l, t) : l \in {ShortLink, LongLink}, t \in linked}
        \cup {BrokenSymlink(n, ShortLink), Absent(n)}

\* the entries the listed directory is drawn from, each under its own name:
\* a directory "B", an empty directory "a", a text file "Ab", an empty file
\* "b", a link "e-acute" to a directory, a blank text file "ba"
DirPool ==
    {Directory(<<66>>, TRUE, <<Child(<<120>>, FALSE)>>, StatOf(16877, 1704067200, Me.uid, Me.gid, 4096)),
     Directory(<<97>>, TRUE, <<>>, StatOf(16877, 951782400, 0, 0, 4096)),
     RegularFile(<<65, 98>>, TRUE, TRUE, <<104, 32, 32, 105>>, Kind(TRUE, FALSE),
                 StatOf(33188, 1704067200, Me.uid, Me.gid, 0)),
     RegularFile(<<98>>, TRUE, FALSE, <<>>, SniffErr, StatOf(33261, 86399, 0, 0, 0)),
     SymlinkTo(<<233>>, LongLink,
               Directory(<<233>>, TRUE, <<>>, StatOf(16877, 0, Me.uid, Me.gid, 4096))),
     RegularFile(<<98, 97>>, TRUE, TRUE, <<32, 10>>, Kind(TRUE, FALSE),
                 StatOf(33188, 1234567, Me.uid, Me.gid, 0))}

\* the sequences of at most n entries of pool, no name twice
RECURSIVE Listings(_, _)
Listings(pool, n) ==
    IF n = 0 THEN {<<>>}
    ELSE LET shorter == Listings(pool, n - 1)
         IN  shorter \cup UNION {{Append(l, e) :
                                      e \in {x \in pool : \A i \in DOMAIN l : l[i].name # x.name}} :
                                   l \in {t \in shorter : Len(t) = n - 1}}

(***************************************************************************)
(* The state machine.  run() goes through get_dir_listing, the row         *)
(* building and the sort of get_files, render_rows and display, or through *)
(* render_error; the helpers are also called on their own, as the tests    *)
(* call them.                                                              *)
(***************************************************************************)
NoCall == [fn |-> "none"]
NoRet == [ok |-> FALSE, val |-> <<>>]
Returned(v) == [ok |-> TRUE, val |-> v]

\* nothing was called
HarnessIdle ==
    /\ call = NoCall
    /\ ret = NoRet

\* the process has not started
ProcessFresh ==
    /\ listing = None
    /\ file_rows = <<>>
    /\ col_widths = ColPaddings_default
    /\ out_text = <<>>
    /\ stderr = <<>>
    /\ pager = "none"
    /\ pager_stdin = <<>>
    /\ stdout = <<>>
    /\ display_calls = 0
    /\ exit_code = None

\* what the start path names: nothing; something that is no directory; a
\* directory read_dir fails on; a directory with its entries
NoDir == [exists |-> FALSE, is_dir |-> FALSE, readable |-> FALSE, entries |-> <<>>]
NotADir == [exists |-> TRUE, is_dir |-> FALSE, readable |-> TRUE, entries |-> <<>>]
UnreadableDir == [exists |-> TRUE, is_dir |-> TRUE, readable |-> FALSE, entries |-> <<>>]
Dir(entries) == [exists |-> TRUE, is_dir |-> TRUE, readable |-> TRUE, entries |-> entries]

\* the start paths: "./" (the default) and "./sub/"
StartPaths == {<<46, 47>>, <<46, 47, 115, 117, 98, 47>>}

\* the filters: none, "a", "B"
Filters == {None, Some(<<97>>), Some(<<66>>)}

\* no process runs: a helper is about to be called on its own
Init ==
    /\ HarnessIdle
    /\ ProcessFresh
    /\ fs = NoDir
    /\ args = [start_path |-> <<46, 47>>, filter |-> None, full |-> FALSE]
    /\ pc = "harness"

\* the texts add_padding is called with: spaces, a letter, a two-byte letter
PadChars == {32, 97, 233}
PadTexts == SeqsUpTo(PadChars, MaxTextLen)

process == <<fs, args, pc, listing, file_rows, col_widths, out_text, stderr, pager,
             pager_stdin, stdout, display_calls, exit_code>>

CallAddPadding ==
    /\ call = NoCall
    /\ pc = "harness"
    /\ \E t \in PadTexts, w \in 0..MaxWidth, a \in Align :
         /\ call' = [fn |-> "add_padding", text |-> t, width |-> w, align |-> a]
         /\ ret' = Returned(add_padding(t, w, a))
    /\ UNCHANGED process

SpecPadding == Init /\ [][CallAddPadding]_vars

\* C4: for every non-empty text t and width w, add_padding returns t
\* unchanged when t has w or more characters, and otherwise t with exactly
\* w - len(t) spaces appended (Left) or prepended (Right): the result has
\* exactly w characters and contains t intact.
C4_PaddingRule ==
    (call.fn = "add_padding" /\ call.text # <<>>) =>
        LET t == call.text
            w == call.width
            r == ret.val
        IN  /\ ret.ok
            /\ Len(t) >= w => r = t
            /\ Len(t) < w =>
                  /\ Len(r) = w
                  /\ call.align = "Left" =>
                        /\ SubSeq(r, 1, Len(t)) = t
                        /\ \A i \in (Len(t) + 1)..w : r[i] = 32
                  /\ call.align = "Right" =>
                        /\ SubSeq(r, w - Len(t) + 1, w) = t
                        /\ \A i \in 1..(w - Len(t)) : r[i] = 32

\* a two-character text holding a two-byte character was right-aligned in a
\* wider column
C4_Witness ==
    /\ call.fn = "add_padding"
    /\ call.text = <<233, 97>>
    /\ call.width = MaxWidth
    /\ call.align = "Right"
    /\ ret.val = Spaces(MaxWidth - 2) \o <<233, 97>>

\* C5: add_padding replaces an empty value by one space and then pads it as
\* it pads any value: add_padding("", w, a) = add_padding(" ", w, a) for
\* every w and a, so an empty cell has exactly w characters when w > 1.
C5_EmptyPaddedLikeSpace ==
    (call.fn = "add_padding" /\ call.text = <<>>) =>
        /\ ret = Returned(add_padding(<<32>>, call.width, call.align))
        /\ call.width > 1 => Len(ret.val) = call.width

(***************************************************************************)
(* truncate_middle under the harness.                                      *)
(***************************************************************************)
\* a dot and a letter
TruncChars == {46, 97}
TruncStrs == SeqsUpTo(TruncChars, MaxStrLen)

CallTruncateMiddle ==
    /\ call = NoCall
    /\ pc = "harness"
    /\ \E s \in TruncStrs, m \in 0..MaxMaxLen, oc \in BOOLEAN :
         /\ call' = [fn |-> "truncate_middle", s |-> s, max_len |-> m,
                     overflow_checks |-> oc]
         /\ ret' = truncate_middle(s, m, oc)
    /\ UNCHANGED process

SpecTruncate == Init /\ [][CallTruncateMiddle]_vars

\* ceil((max_len - 3) / 2) and floor((max_len - 3) / 2)
CeilHalf(n) == (n + 1) \div 2
FloorHalf(n) == n \div 2

\* C8: truncate_middle(s, max_len) returns s unchanged when s has at most
\* max_len characters; when s is longer the result has exactly max_len
\* characters: the first ceil((max_len-3)/2) characters of s, "...", and the
\* last floor((max_len-3)/2) characters of s.  For every max_len, also
\* max_len < 3.
C8_TruncateMiddleAnyMaxLen ==
    call.fn = "truncate_middle" =>
        LET s == call.s
            m == call.max_len
        IN  /\ ret.ok
            /\ Len(s) <= m => ret.val = s
            /\ Len(s) > m =>
                  /\ Len(ret.val) = m
                  /\ ret.val = Take(s, CeilHalf(m - 3)) \o <<46, 46, 46>>
                                \o Skip(s, Len(s) - FloorHalf(m - 3))

\* the positions at which sub occurs in s
Occurrences(sub, s) ==
    {i \in 1..(Len(s) - Len(sub) + 1) : SubSeq(s, i, i + Len(sub) - 1) = sub}

\* the number of occurrences of sub in s that do not overlap, counted from
\* the left as str::matches does
RECURSIVE CountMatches(_, _)
CountMatches(sub, s) ==
    IF Occurrences(sub, s) = {} THEN 0
    ELSE LET first == CHOOSE i \in Occurrences(sub, s) :
                          \A j \in Occurrences(sub, s) : i <= j
         IN  1 + CountMatches(sub, Skip(s, first + Len(sub) - 1))

\* C9: for any s longer than max_len the result of truncate_middle holds
\* "..." exactly once, whatever characters s holds (stated here for
\* max_len >= 3, where no subtraction overflows).
C9_EllipsisExactlyOnce ==
    (call.fn = "truncate_middle" /\ Len(call.s) > call.max_len /\ call.max_len >= 3) =>
        /\ ret.ok
        /\ CountMatches(<<46, 46, 46>>, ret.val) = 1

NoDot(s) == \A i \in DOMAIN s : s[i] # 46

\* C9, amended: whenever truncate_middle returns for an s longer than
\* max_len, the result is a prefix of s, then "...", then a suffix of s;
\* it holds "..." exactly once when that prefix and that suffix hold no dot.
C9_EllipsisOnceWithoutDots ==
    (call.fn = "truncate_middle" /\ Len(call.s) > call.max_len /\ ret.ok) =>
        \E f \in 0..Len(call.s), b \in 0..Len(call.s) :
            LET front == Take(call.s, f)
                back == Skip(call.s, Len(call.s) - b)
            IN  /\ ret.val = front \o <<46, 46, 46>> \o back
                /\ (NoDot(front) /\ NoDot(back)) =>
                      /\ Occurrences(<<46, 46, 46>>, ret.val) = {f + 1}
                      /\ CountMatches(<<46, 46, 46>>, ret.val) = 1

\* a seven-letter string was cut to six characters around one ellipsis
C9_Witness ==
    /\ call.fn = "truncate_middle"
    /\ call.s = <<97, 97, 97, 97, 97, 97, 97>>
    /\ call.max_len = 6
    /\ ret = [ok |-> TRUE, val |-> <<97, 97, 46, 46, 46, 97>>]

(***************************************************************************)
(* sort_rows under the harness, on rows as make_test_row builds them.           *)
(***************************************************************************)
\* "a/z", "b/a", "B", "a", "A"
SortNames == {<<97, 47, 122>>, <<98, 47, 97>>, <<66>>, <<97>>, <<65>>}
SortRows == {[info |-> [fname |-> n, ftype |-> t]] : n \in SortNames, t \in FileType}

CallSortRows ==
    /\ call = NoCall
    /\ pc = "harness"
    /\ \E rs \in SeqsUpTo(SortRows, MaxSortRows) :
         /\ call' = [fn |-> "sort_rows", input |-> rs]
         /\ ret' = Returned(sort_rows(rs))
    /\ UNCHANGED process

SpecSort == Init /\ [][CallSortRows]_vars

(***************************************************************************)
(* run().                                                                  *)
(***************************************************************************)
\* the process starts on a directory of DirPool entries, or on a path that
\* names no directory, or on a directory that cannot be read
InitRun ==
    /\ HarnessIdle
    /\ ProcessFresh
    /\ fs \in {NoDir, NotADir, UnreadableDir} \cup {Dir(l) : l \in Listings(DirPool, MaxEntries)}
    /\ args \in [start_path : StartPaths, filter : Filters, full : BOOLEAN]
    /\ pc = "start"

\* the process starts on a directory that holds one entry, of any kind, on
\* a path that names no directory, or on a directory that cannot be read
InitEntry ==
    /\ HarnessIdle
    /\ ProcessFresh
    /\ fs \in {NoDir, NotADir, UnreadableDir} \cup {Dir(<<e>>) : e \in EntryPool}
    /\ args \in [start_path : {<<46, 47>>}, filter : {None}, full : BOOLEAN]
    /\ pc = "start"

\* get_files: get_dir_listing
GetDirListing ==
    /\ pc = "start"
    /\ listing' = get_dir_listing(fs, args.start_path, args.filter)
    /\ pc' = IF listing'.some THEN "listed" ELSE "no_listing"
    /\ UNCHANGED <<call, ret, fs, args, file_rows, col_widths, out_text, stderr, pager,
                   pager_stdin, stdout, display_calls, exit_code>>

\* get_files: a row of every path that build_row gives one for
BuildRows ==
    /\ pc = "listed"
    /\ file_rows' = build_rows(fs, listing.val, UserGroupCache_new, args.full)
    /\ pc' = "built"
    /\ UNCHANGED <<call, ret, fs, args, listing, col_widths, out_text, stderr, pager,
                   pager_stdin, stdout, display_calls, exit_code>>

\* get_files: sort_rows
SortRowsStep ==
    /\ pc = "built"
    /\ file_rows' = sort_rows(file_rows)
    /\ pc' = "sorted"
    /\ UNCHANGED <<call, ret, fs, args, listing, col_widths, out_text, stderr, pager,
                   pager_stdin, stdout, display_calls, exit_code>>

\* run: render_error, return false; main: exit(1)
RenderError ==
    /\ pc = "no_listing"
    /\ stderr' = Append(stderr, "Path could not be found, or path is not a directory.")
    /\ exit_code' = Some(1)
    /\ pc' = "exited"
    /\ UNCHANGED <<call, ret, fs, args, listing, file_rows, col_widths, out_text, pager,
                   pager_stdin, stdout, display_calls>>

\* run: render_rows
RenderRows ==
    /\ pc = "sorted"
    /\ col_widths' = get_col_paddings(file_rows)
    /\ out_text' = render_rows_with(file_rows, col_widths', args.full)
    /\ pc' = "rendered"
    /\ UNCHANGED <<call, ret, fs, args, listing, file_rows, stderr, pager, pager_stdin, stdout,
                   display_calls, exit_code>>

\* display.rs: format!("\n{}\n\n", output)
\* mutant: one newline after the block
paged_display_formatted_one_newline(text) == <<10>> \o text \o <<10>>

paged_display_formatted(text) == <<10>> \o text \o <<10, 10>>

\* run: display, return true; main returns.  paged_display: less is spawned
\* or it is not; when it is, formatted goes to write_all on its stdin and
\* child.wait() returns once it has exited; when it is not, formatted is
\* printed.
Display ==
    /\ pc = "rendered"
    /\ display_calls' = display_calls + 1
    /\ \E spawned \in BOOLEAN :
         IF spawned
         THEN /\ pager_stdin' = pager_stdin \o paged_display_formatted(out_text)
              /\ pager' = "exited"
              /\ UNCHANGED stdout
         ELSE /\ stdout' = stdout \o paged_display_formatted(out_text)
              /\ pager' = "spawn_failed"
              /\ UNCHANGED pager_stdin
    /\ exit_code' = Some(0)
    /\ pc' = "exited"
    /\ UNCHANGED <<call, ret, fs, args, listing, file_rows, col_widths, out_text, stderr>>

Next ==
    \/ GetDirListing
    \/ BuildRows
    \/ SortRowsStep
    \/ RenderError
    \/ RenderRows
    \/ Display

\* run() on a directory of several entries
Spec == InitRun /\ [][Next]_vars

\* run() on a directory of one entry of any kind
SpecEntry == InitEntry /\ [][Next]_vars

(***************************************************************************)
(* Properties.                                                             *)
(***************************************************************************)
\* a is b or comes before b in lexical order of the scalar values
LexLeq(a, b) ==
    \/ (Len(a) <= Len(b) /\ SubSeq(b, 1, Len(a)) = a)
    \/ \E k \in 1..Len(a) :
          /\ k <= Len(b)
          /\ SubSeq(a, 1, k - 1) = SubSeq(b, 1, k - 1)
          /\ a[k] < b[k]

\* C1: after sort_rows every Directory row precedes every File row, and
\* within each of the two groups the lower-cased full paths (fname) are in
\* non-decreasing lexical order.
C1_DirsFirstThenByLowercasePath ==
    call.fn = "sort_rows" =>
        LET r == ret.val
        IN  /\ Len(r) = Len(call.input)
            /\ \A i \in DOMAIN r : \A j \in DOMAIN r :
                  i < j =>
                    /\ r[j].info.ftype = "Directory" => r[i].info.ftype = "Directory"
                    /\ r[i].info.ftype = r[j].info.ftype =>
                          LexLeq(to_lowercase(r[i].info.fname), to_lowercase(r[j].info.fname))

\* files "B" and "a" and directories "b/a" and "a/z" were sorted: the
\* directories went first, "a/z" before "b/a", and "a" went before "B"
C1_Witness ==
    /\ call.fn = "sort_rows"
    /\ call.input = << [info |-> [fname |-> <<66>>, ftype |-> "File"]],
                       [info |-> [fname |-> <<98, 47, 97>>, ftype |-> "Directory"]],
                       [info |-> [fname |-> <<97>>, ftype |-> "File"]],
                       [info |-> [fname |-> <<97, 47, 122>>, ftype |-> "Directory"]] >>
    /\ ret.val = << [info |-> [fname |-> <<97, 47, 122>>, ftype |-> "Directory"]],
                    [info |-> [fname |-> <<98, 47, 97>>, ftype |-> "Directory"]],
                    [info |-> [fname |-> <<97>>, ftype |-> "File"]],
                    [info |-> [fname |-> <<66>>, ftype |-> "File"]] >>

\* render_rows has returned
Rendered == pc \in {"rendered", "exited"} /\ exit_code # Some(1)

CompactCols == <<"Size", "TimeIso", "SrcName", "TargetName">>
FullCols == <<"Acls", "Owner", "FileType", "Size", "TimeIso", "SrcName", "TargetName",
              "Preview">>

\* the line of a row: the margin, then the cells of cols joined by the margin
LineOf(row, cols) ==
    <<32, 32>> \o Join([i \in DOMAIN cols |-> make_pretty(row, cols[i], col_widths)],
                       <<32, 32>>)

\* C2: render_rows emits one line per row, in the order of the rows, joined
\* by one newline (nothing for no rows); a line is the 2-space margin and
\* then the row's cells joined by the 2-space margin, the cells being Size,
\* TimeIso, SrcName, TargetName in compact mode and Acls, Owner, FileType,
\* Size, TimeIso, SrcName, TargetName, Preview in full mode.
C2_OneLinePerRowInColumnOrder ==
    Rendered =>
        LET cols == IF args.full THEN FullCols ELSE CompactCols
            lines == [i \in DOMAIN file_rows |-> LineOf(file_rows[i], cols)]
        IN  /\ out_text = Join(lines, <<10>>)
            /\ file_rows = <<>> => out_text = <<>>
            /\ file_rows # <<>> =>
                  Cardinality({k \in DOMAIN out_text : out_text[k] = 10}) = Len(file_rows) - 1

\* two rows were rendered in full mode
C2_Witness ==
    /\ Rendered
    /\ args.full
    /\ Len(file_rows) = 2
    /\ file_rows[1].render.preview # file_rows[2].render.preview
    /\ Cardinality({k \in DOMAIN out_text : out_text[k] = 10}) = 1

RenderKeys == {"acls", "owner", "filetype", "size", "timeiso", "srcname", "targetname",
               "preview"}

\* C3: get_col_paddings returns for each of the 8 columns the maximum over
\* all rows of the number of characters of the row's rendered value, 0 for
\* no rows; and that one width is what every row's cell is padded with.
C3_WidthIsMaxCharCount ==
    Rendered =>
        /\ DOMAIN col_widths = RenderKeys
        /\ \A k \in RenderKeys :
              /\ file_rows = <<>> => col_widths[k] = 0
              /\ \A i \in DOMAIN file_rows : Len(file_rows[i].render[k]) <= col_widths[k]
              /\ file_rows # <<>> =>
                    \E i \in DOMAIN file_rows : Len(file_rows[i].render[k]) = col_widths[k]
        /\ \A i \in DOMAIN file_rows :
              \A c \in DOMAIN (IF args.full THEN FullCols ELSE CompactCols) :
                  LET col == (IF args.full THEN FullCols ELSE CompactCols)[c]
                  IN  contains(out_text,
                               add_color(add_padding(get_col_value(file_rows[i], col),
                                                     get_col_padding(col_widths, col),
                                                     get_col_align(col)),
                                         get_color_for_field(file_rows[i], col)))

\* widths were computed over two rows, the wider name holding a character
\* of two bytes
C3_Witness ==
    /\ Rendered
    /\ Len(file_rows) = 2
    /\ \E i \in DOMAIN file_rows :
          /\ file_rows[i].render.srcname = <<233, 47>>
          /\ col_widths.srcname = 2
          /\ Utf8Len(file_rows[i].render.srcname) = 3

\* the name holds the filter, both lower-cased
Matches(name, filter) ==
    ~filter.some
    \/ \E i \in 1..(Len(name) - Len(filter.val) + 1) :
          \A k \in 1..Len(filter.val) :
              to_lower_char(name[i + k - 1]) = to_lower_char(filter.val[k])

\* the names of the entries that match, in enumeration order
MatchingNames ==
    LET names == [i \in DOMAIN fs.entries |-> fs.entries[i].name]
        hit(n) == Matches(n, args.filter)
    IN  SelectSeq(names, hit)

\* C10: get_dir_listing returns one path for exactly the entries whose name
\* (not the path prefix) holds the filter, both lower-cased, and one path
\* per entry without a filter; the filter comes before any row is built, so
\* an entry filtered out gives no row and no column width.
C10_FilterOnLowercasedName ==
    (pc \notin {"start", "harness"} /\ fs.is_dir /\ fs.readable) =>
        /\ listing.some
        /\ Len(listing.val) = Len(MatchingNames)
        /\ \A i \in DOMAIN listing.val : file_name(listing.val[i]) = MatchingNames[i]
        /\ \A i \in DOMAIN file_rows :
              /\ Matches(file_name(file_rows[i].info.fname), args.filter)
              /\ \E j \in DOMAIN listing.val : listing.val[j] = file_rows[i].info.fname
        /\ Rendered =>
              \A k \in RenderKeys :
                  \/ col_widths[k] = 0
                  \/ \E i \in DOMAIN file_rows :
                        /\ Matches(file_name(file_rows[i].info.fname), args.filter)
                        /\ col_widths[k] = Len(file_rows[i].render[k])

\* under "./sub/" and the filter "a", "Ab" was listed and "b" was not
C10_Witness ==
    /\ pc = "exited"
    /\ args.filter = Some(<<97>>)
    /\ args.start_path = <<46, 47, 115, 117, 98, 47>>
    /\ Len(fs.entries) = 2
    /\ fs.entries[1].name = <<98>>
    /\ fs.entries[2].name = <<65, 98>>
    /\ listing = Some(<< <<115, 117, 98, 47, 65, 98>> >>)
    /\ Len(file_rows) = 1

\* build_row has built the rows
Built == pc \in {"built", "sorted", "rendered", "exited"} /\ exit_code # Some(1)

\* the entry a row was built from
EntryOf(row) == Lookup(fs.entries, row.info.fname)

\* C6: the preview of an entry is never the empty string, whatever the
\* content type and the content: render_col_preview returns at least one
\* character.
C6_PreviewNeverEmpty ==
    (Built /\ args.full) =>
        \A i \in DOMAIN file_rows : Len(file_rows[i].render.preview) >= 1

\* the first PREVIEW_READ_LEN bytes or characters of a file
ReadPrefix(bytes) == Take(bytes, PREVIEW_READ_LEN)

\* the three cases in which the code returns an empty preview: a readable
\* directory without children; a BinaryOther file that yields bytes none of
\* which is in 0x21..0x7E; a Text file that yields characters all of which
\* are whitespace or control characters
EmptyPreviewCase(e, content_type) ==
    \/ /\ content_type = "Directory"
       /\ e.resolves = "dir" /\ e.readable
       /\ e.children = <<>>
    \/ /\ content_type = "BinaryOther"
       /\ e.resolves = "file" /\ e.readable
       /\ e.bytes # <<>>
       /\ \A k \in DOMAIN ReadPrefix(e.bytes) : e.bytes[k] \notin 33..126
    \/ /\ content_type = "Text"
       /\ e.resolves = "file" /\ e.readable
       /\ e.bytes # <<>>
       /\ \A k \in DOMAIN ReadPrefix(e.bytes) :
             e.bytes[k] \in 0..32 \/ e.bytes[k] = 127

\* C6, amended: render_col_preview returns the empty string in exactly
\* three cases (an empty readable directory, a BinaryOther file whose first
\* 256 bytes hold no byte in 0x21..0x7E, a Text file whose first 256
\* characters are all whitespace or control characters) and at least one
\* character in every other case; for every content type other than
\* Directory, BinaryOther and Text it returns a single space.
C6_PreviewEmptyOnlyInThreeCases ==
    (Built /\ args.full) =>
        \A i \in DOMAIN file_rows :
            LET row == file_rows[i]
            IN  /\ row.render.preview = <<>>
                      <=> EmptyPreviewCase(EntryOf(row), row.info.content_type)
                /\ row.info.content_type \notin {"Directory", "BinaryOther", "Text"}
                      => row.render.preview = <<32>>

\* a Text file of blanks got the empty preview, in full mode
C6_Witness ==
    /\ Built
    /\ args.full
    /\ Len(file_rows) = 1
    /\ file_rows[1].info.content_type = "Text"
    /\ EntryOf(file_rows[1]).bytes = <<32, 10>>
    /\ file_rows[1].render.preview = <<>>

\* C7: get_content_type gives exactly one ContentType by the first match
\* of: Directory if the path is a directory; NotReadable if it cannot be
\* opened for reading; Empty if the stat size is 0; else the sniffed kind,
\* text as Text, executable as BinaryExecutable, anything else as
\* BinaryOther, a sniffing failure as Unknown.
C7_ContentTypePrecedence ==
    Built =>
        \A i \in DOMAIN file_rows :
            LET e == EntryOf(file_rows[i])
                ct == file_rows[i].info.content_type
                is_dir == e.resolves = "dir"
                opens == e.readable
                empty == file_rows[i].info.stat_res.st_size = 0
                sniffed == ~is_dir /\ opens /\ ~empty
            IN  /\ ct \in ContentType
                /\ is_dir => ct = "Directory"
                /\ (~is_dir /\ ~opens) => ct = "NotReadable"
                /\ (~is_dir /\ opens /\ empty) => ct = "Empty"
                /\ (sniffed /\ e.sniff.err) => ct = "Unknown"
                /\ (sniffed /\ ~e.sniff.err /\ e.sniff.is_text) => ct = "Text"
                /\ (sniffed /\ ~e.sniff.err /\ ~e.sniff.is_text /\ e.sniff.is_executable)
                      => ct = "BinaryExecutable"
                /\ (sniffed /\ ~e.sniff.err /\ ~e.sniff.is_text /\ ~e.sniff.is_executable)
                      => ct = "BinaryOther"

\* a file of size 0 that cannot be opened was classified NotReadable, and
\* so the row was built
C7_Witness ==
    /\ Built
    /\ Len(file_rows) = 1
    /\ ~EntryOf(file_rows[1]).readable
    /\ EntryOf(file_rows[1]).resolves = "file"
    /\ file_rows[1].info.stat_res.st_size = 0
    /\ file_rows[1].info.content_type = "NotReadable"

\* the line render_error prints
ErrorLine == "Path could not be found, or path is not a directory."

\* C11: when the start path does not exist or is not a directory,
\* get_dir_listing and get_files return None, run writes the error to
\* standard error and returns false, the process exits with code 1 and
\* display is never called, neither sink receiving anything; when the start
\* path is a readable directory the process exits with code 0 after display
\* was called exactly once, and nothing goes to standard error.
C11_ErrorExitWithoutDisplay ==
    /\ (~fs.exists \/ ~fs.is_dir) /\ pc # "harness" =>
          /\ get_files(fs, args.start_path, args.full, args.filter) = None
          /\ listing = None
          /\ display_calls = 0 /\ pager = "none"
          /\ pager_stdin = <<>> /\ stdout = <<>>
          /\ pc \notin {"listed", "built", "sorted", "rendered"}
          /\ pc = "exited" => exit_code = Some(1) /\ stderr = <<ErrorLine>>
    /\ (fs.exists /\ fs.is_dir /\ fs.readable) =>
          /\ stderr = <<>>
          /\ pc # "no_listing"
          /\ exit_code # Some(1)
          /\ display_calls = (IF pc = "exited" THEN 1 ELSE 0)
          /\ pc = "exited" => exit_code = Some(0)

\* a start path that names a file and no directory ended in exit code 1
C11_Witness ==
    /\ fs = NotADir
    /\ pc = "exited"
    /\ exit_code = Some(1)
    /\ stderr = <<ErrorLine>>
    /\ display_calls = 0

\* C12: every path get_dir_listing returned gives exactly one row in the
\* result of get_files, also when the entry's stat fails: the rows are as
\* many as the paths and each path is the fname of exactly one row.
C12_OneRowPerListedPath ==
    (Built /\ listing.some) =>
        /\ Len(file_rows) = Len(listing.val)
        /\ \A j \in DOMAIN listing.val :
              Cardinality({i \in DOMAIN file_rows :
                              file_rows[i].info.fname = listing.val[j]}) = 1

(***************************************************************************)
(* get_acls_all under the harness.                                         *)
(***************************************************************************)
\* the bits of a mode above the low 9: none, the sticky bit, S_IFDIR,
\* S_IFREG, and every bit up to bit 30 (the integers of the checker end at
\* 2^31 - 1, so bit 31 of the u32 is never set)
ModeHighParts == {0, 1, 32, 64, 4194303}

\* every value of the low 9 bits, under each of the high parts
CallGetAclsAll ==
    /\ call = NoCall
    /\ pc = "harness"
    /\ \E lo \in 0..511, hi \in ModeHighParts :
         /\ call' = [fn |-> "get_acls_all", mode |-> 512 * hi + lo]
         /\ ret' = Returned(get_acls_all(512 * hi + lo))
    /\ UNCHANGED process

SpecAcls == Init /\ [][CallGetAclsAll]_vars

\* C13: get_acls_all returns exactly three characters, each a digit 0-7:
\* the owner, group and other groups of 3 bits of the low 9 bits of the
\* mode, in that order; it is the same string as for the low 9 bits alone.
C13_ThreeOctalDigitsOfLowNineBits ==
    call.fn = "get_acls_all" =>
        LET low == call.mode % 512
            r == ret.val
        IN  /\ ret.ok
            /\ Len(r) = 3
            /\ \A i \in 1..3 : r[i] \in 48..55
            /\ 64 * (r[1] - 48) + 8 * (r[2] - 48) + (r[3] - 48) = low
            /\ r = get_acls_all(low)

\* the mode 0o100644 of a regular file gave "644"
C13_Witness ==
    /\ call.fn = "get_acls_all"
    /\ call.mode = 33188
    /\ ret.val = <<54, 52, 52>>

(***************************************************************************)
(* format_size_with_commas under the harness.                              *)
(***************************************************************************)
\* sizes of 7 to 10 digits, up to the largest integer of the checker
\* (2^31 - 1; the u64 of the code goes on to 20 digits)
LargeSizes == {999999, 1000000, 1234567, 99999999, 999999999, 1000000000, 2147483647}

CallFormatSize ==
    /\ call = NoCall
    /\ pc = "harness"
    /\ \E n \in (0..MaxSmallSize) \cup LargeSizes :
         /\ call' = [fn |-> "format_size_with_commas", size |-> n]
         /\ ret' = Returned(format_size_with_commas(n))
    /\ UNCHANGED process

SpecCommas == Init /\ [][CallFormatSize]_vars

\* the number a string of decimal digits spells
RECURSIVE ParseDec(_)
ParseDec(s) ==
    IF s = <<>> THEN 0 ELSE 10 * ParseDec(SubSeq(s, 1, Len(s) - 1)) + (s[Len(s)] - 48)

IsComma(c) == c = 44
IsDigit(c) == c \in 48..57

\* C14: format_size_with_commas(n) is the decimal digits of n with a comma
\* before every group of 3 digits counted from the right and none at the
\* start; for n < 1000 it is the plain decimal string; without its commas
\* it parses back to n.
C14_CommasEveryThreeFromRight ==
    call.fn = "format_size_with_commas" =>
        LET n == call.size
            r == ret.val
            digits == SelectSeq(r, IsDigit)
        IN  /\ ret.ok
            /\ r # <<>> /\ ~IsComma(r[1])
            /\ \A i \in DOMAIN r : IsComma(r[i]) \/ IsDigit(r[i])
            /\ \A i \in DOMAIN r : IsComma(r[i]) <=> (Len(r) - i + 1) % 4 = 0
            /\ digits[1] # 48 \/ n = 0
            /\ ParseDec(digits) = n
            /\ n < 1000 => (r = digits /\ Len(r) \in 1..3)

\* 1234567 was formatted "1,234,567"
C14_Witness ==
    /\ call.fn = "format_size_with_commas"
    /\ call.size = 1234567
    /\ ret.val = <<49, 44, 50, 51, 52, 44, 53, 54, 55>>

(***************************************************************************)
(* collapse_whitespace under the harness.                                  *)
(***************************************************************************)
\* a space, a tab, the control character U+0001, a letter, the no-break
\* space U+00A0 (whitespace, no control) and U+0085 (whitespace and control)
CollapseChars == {32, 9, 1, 97, 160, 133}

CallCollapseWhitespace ==
    /\ call = NoCall
    /\ pc = "harness"
    /\ \E s \in SeqsUpTo(CollapseChars, MaxCollapseLen) :
         /\ call' = [fn |-> "collapse_whitespace", s |-> s]
         /\ ret' = Returned(collapse_whitespace(s))
    /\ UNCHANGED process

SpecCollapse == Init /\ [][CallCollapseWhitespace]_vars

\* a character collapse_whitespace keeps as it is
IsWord(c) == ~is_whitespace(c) /\ ~is_control(c)
NotSpace(c) == c # 32

CallPreview ==
    /\ call = NoCall
    /\ pc = "harness"
    /\ \E e \in EntryPool, f \in {"preview_binary", "preview_text", "preview_directory"} :
         /\ call' = [fn |-> f, e |-> e]
         /\ ret' = Returned(CASE f = "preview_binary" -> preview_binary(e)
                              [] f = "preview_text" -> preview_text(e)
                              [] f = "preview_directory" -> preview_directory(e))
    /\ UNCHANGED process

SpecPreview == Init /\ [][CallPreview]_vars

\* s with its leading and trailing separators dropped and every other run
\* of separators replaced by one space
SqueezeRuns(s, IsSep(_)) ==
    LET marked == [i \in DOMAIN s |->
                     IF ~IsSep(s[i]) THEN s[i]
                     ELSE IF /\ i > 1
                             /\ ~IsSep(s[i - 1])
                             /\ \E j \in (i + 1)..Len(s) : ~IsSep(s[j])
                          THEN 32
                          ELSE -1]
        stays(c) == c # -1
    IN  SelectSeq(marked, stays)

\* the bytes preview_binary keeps, and those of them that separate words
IsKeptByte(b) == b \in 33..126 \/ b \in 9..13
IsControlWhitespace(b) == b \in 9..13
IsGraphic(b) == b \in 33..126

\* C16: on a readable file with a non-empty read preview_binary looks at
\* the first 256 bytes only, keeps the bytes in 0x21-0x7E and 0x09-0x0D
\* (the space 0x20 and every other byte is dropped and separates nothing),
\* turns each run of kept 0x09-0x0D into one space, trims, and returns the
\* first 20 characters at most: only characters 0x21-0x7E and single
\* spaces.  An unreadable file and a read of 0 bytes give one space.
C16_BinaryPreviewKeepsPrintable ==
    call.fn = "preview_binary" =>
        LET e == call.e
            r == ret.val
            buffer == Take(e.bytes, 256)
            kept == SelectSeq(buffer, IsKeptByte)
        IN  /\ ret.ok
            /\ (~e.readable \/ e.resolves # "file" \/ e.bytes = <<>>) => r = <<32>>
            /\ (e.readable /\ e.resolves = "file" /\ e.bytes # <<>>) =>
                  /\ r = Take(SqueezeRuns(kept, IsControlWhitespace), 20)
                  /\ Len(r) <= 20
                  /\ \A i \in DOMAIN r : r[i] \in 33..126 \/ r[i] = 32
                  /\ \A i \in 1..(Len(r) - 1) : ~(r[i] = 32 /\ r[i + 1] = 32)
                  /\ SelectSeq(r, NotSpace) \in
                        {Take(SelectSeq(buffer, IsGraphic), n) : n \in 0..20}

\* "h  i" gave "hi": the two spaces between the letters were dropped
C16_Witness ==
    /\ call.fn = "preview_binary"
    /\ call.e.readable
    /\ call.e.bytes = <<104, 32, 32, 105>>
    /\ ret.val = <<104, 105>>

\* a character collapse_whitespace takes for a blank
IsBlank(c) == is_whitespace(c) \/ is_control(c)

\* C17: on a readable non-empty text file preview_text returns exactly the
\* first 20 characters of collapse_whitespace of the first 256 characters
\* of the content, the content being the lossy decoding of the first 256
\* bytes when the file is no valid UTF-8: at most 20 characters, no leading
\* space, no two adjacent spaces; "word " 80 times gives the 20 characters
\* "word word word word ".  Empty content and a file that cannot be opened
\* give one space.
C17_TextPreviewIsCollapsedPrefix ==
    call.fn = "preview_text" =>
        LET e == call.e
            r == ret.val
            content == IF \A i \in DOMAIN e.bytes : e.bytes[i] < 128 THEN e.bytes
                       ELSE [i \in 1..Len(Take(e.bytes, 256)) |->
                               IF e.bytes[i] < 128 THEN e.bytes[i] ELSE 65533]
            head == Take(content, 256)
        IN  /\ ret.ok
            /\ (~e.readable \/ e.resolves # "file" \/ e.bytes = <<>>) => r = <<32>>
            /\ (e.readable /\ e.resolves = "file" /\ e.bytes # <<>>) =>
                  /\ r = Take(collapse_whitespace(head), 20)
                  /\ r = Take(SqueezeRuns(head, IsBlank), 20)
                  /\ Len(r) <= 20
                  /\ r # <<>> => r[1] # 32
                  /\ \A i \in 1..(Len(r) - 1) : ~(r[i] = 32 /\ r[i + 1] = 32)
                  /\ e.bytes = WordWord =>
                        (Len(r) = 20 /\ r = Take(WordWord, 20))

\* the 400 bytes "word " 80 times gave "word word word word "
C17_Witness ==
    /\ call.fn = "preview_text"
    /\ call.e.readable
    /\ call.e.bytes = WordWord
    /\ ret.val = <<119, 111, 114, 100, 32, 119, 111, 114, 100, 32,
                   119, 111, 114, 100, 32, 119, 111, 114, 100, 32>>

\* the names preview_directory joins: those of the first 32 children, a
\* directory's followed by "/", with one space between them
JoinedChildren(e) ==
    Join([i \in 1..Len(Take(e.children, 32)) |->
            IF e.children[i].is_dir THEN e.children[i].name \o <<47>>
            ELSE e.children[i].name],
         <<32>>)

\* C18: preview_directory looks at the first 32 children only and appends
\* " ..." exactly when the directory has more than 32 children; what comes
\* before that suffix is a prefix of the joined names of at most 20
\* characters.  A directory that cannot be read gives "-", an empty
\* directory the empty string.
C18_DirectoryPreviewSuffix ==
    call.fn = "preview_directory" =>
        LET e == call.e
            r == ret.val
            more == Len(e.children) > 32
            body == IF more THEN SubSeq(r, 1, Len(r) - 4) ELSE r
        IN  /\ ret.ok
            /\ ~(e.resolves = "dir" /\ e.readable) => r = <<45>>
            /\ (e.resolves = "dir" /\ e.readable) =>
                  /\ e.children = <<>> => r = <<>>
                  /\ more => (Len(r) >= 4 /\ SubSeq(r, Len(r) - 3, Len(r)) = <<32, 46, 46, 46>>)
                  /\ Len(body) <= 20
                  /\ body \in {Take(JoinedChildren(e), n) : n \in 0..20}
                  /\ r = preview_directory([e EXCEPT !.children = Take(e.children, 32)])
                           \o (IF more THEN <<32, 46, 46, 46>> ELSE <<>>)

\* 33 children "1" to "33" gave "1 2 3 4 5 6 7 8 9 ..."
C18_Witness ==
    /\ call.fn = "preview_directory"
    /\ call.e.readable
    /\ Len(call.e.children) = 33
    /\ ret.val = <<49, 32, 50, 32, 51, 32, 52, 32, 53, 32, 54, 32, 55, 32, 56, 32, 57,
                   32, 46, 46, 46>>

\* C20: preview_directory trims back to the last space only when the cut
\* at 20 characters falls inside a word: when the joined names have 20
\* characters or fewer, what comes before any " ..." is the whole joined
\* text, every child in it; and the trim never leaves the empty string.
C20_TrimOnlyWhenCutMidWord ==
    (call.fn = "preview_directory" /\ call.e.resolves = "dir" /\ call.e.readable) =>
        LET e == call.e
            r == ret.val
            body == IF Len(e.children) > 32 THEN SubSeq(r, 1, Len(r) - 4) ELSE r
        IN  /\ Len(JoinedChildren(e)) <= 20 => body = JoinedChildren(e)
            /\ JoinedChildren(e) # <<>> => body # <<>>

\* C19: paged_display wraps the block as one newline, the block, two
\* newlines; when the pager was started exactly that text went to its
\* standard input, nothing to standard output, and the call returned after
\* the pager had exited; when the pager could not be started exactly that
\* text went to standard output and nothing to the pager.  Never both.
C19_OneSinkGetsWrappedBlock ==
    LET formatted == <<10>> \o out_text \o <<10, 10>>
    IN  /\ display_calls = 0 =>
              (pager = "none" /\ pager_stdin = <<>> /\ stdout = <<>>)
        /\ display_calls > 0 =>
              /\ display_calls = 1
              /\ pager \in {"exited", "spawn_failed"}
              /\ pager = "exited" => (pager_stdin = formatted /\ stdout = <<>>)
              /\ pager = "spawn_failed" => (stdout = formatted /\ pager_stdin = <<>>)
              /\ Len(formatted) = Len(out_text) + 3
              /\ ~(pager_stdin # <<>> /\ stdout # <<>>)

\* the pager could not be started and two rows went to standard output
C19_Witness ==
    /\ display_calls = 1
    /\ pager = "spawn_failed"
    /\ Len(file_rows) = 2
    /\ stdout = <<10>> \o render_rows(file_rows, args.full) \o <<10, 10>>
    /\ pager_stdin = <<>>

\* the rows of rs that are x or y, in their order in rs
Only(rs, x, y) ==
    LET is_one(r) == r = x \/ r = y
    IN  SelectSeq(rs, is_one)

\* C21: sort_rows is stable: two different rows with equal keys (the same
\* FileType and the same lower-cased path, as "A" and "a") come out in the
\* relative order they went in, whatever the input order.
C21_EqualKeysKeepInputOrder ==
    call.fn = "sort_rows" =>
        \A i \in DOMAIN call.input : \A j \in DOMAIN call.input :
            LET x == call.input[i]
                y == call.input[j]
            IN  (/\ x # y
                 /\ x.info.ftype = y.info.ftype
                 /\ to_lowercase(x.info.fname) = to_lowercase(y.info.fname)) =>
                    Only(ret.val, x, y) = Only(call.input, x, y)

\* files "a", "B", "A", "a" were sorted to "a", "A", "a", "B"
C21_Witness ==
    /\ call.fn = "sort_rows"
    /\ call.input = << [info |-> [fname |-> <<97>>, ftype |-> "File"]],
                       [info |-> [fname |-> <<66>>, ftype |-> "File"]],
                       [info |-> [fname |-> <<65>>, ftype |-> "File"]],
                       [info |-> [fname |-> <<97>>, ftype |-> "File"]] >>
    /\ ret.val = << [info |-> [fname |-> <<97>>, ftype |-> "File"]],
                    [info |-> [fname |-> <<65>>, ftype |-> "File"]],
                    [info |-> [fname |-> <<97>>, ftype |-> "File"]],
                    [info |-> [fname |-> <<66>>, ftype |-> "File"]] >>

\* how many times row x occurs in rs
Count(rs, x) == Cardinality({i \in DOMAIN rs : rs[i] = x})

\* the result of the comparator with its arguments swapped
Reverse(o) == CASE o = "Less" -> "Greater" [] o = "Greater" -> "Less" [] OTHER -> "Equal"

\* C29: sort_rows only permutes its input (every row occurs in the output
\* as many times as in the input); on the rows of the input its comparator
\* is a total preorder: a row compares Equal with itself, swapping the
\* arguments reverses the result, and it is transitive; so sorting the
\* sorted list again changes nothing.
C29_SortPermutesByTotalPreorder ==
    call.fn = "sort_rows" =>
        LET rows == {call.input[i] : i \in DOMAIN call.input}
        IN  /\ Len(ret.val) = Len(call.input)
            /\ \A x \in rows : Count(ret.val, x) = Count(call.input, x)
            /\ \A x \in rows : row_cmp(x, x) = "Equal"
            /\ \A x \in rows, y \in rows : row_cmp(x, y) = Reverse(row_cmp(y, x))
            /\ \A x \in rows, y \in rows, z \in rows :
                  (row_cmp(x, y) # "Greater" /\ row_cmp(y, z) # "Greater")
                      => row_cmp(x, z) # "Greater"
            /\ \A i \in 1..(Len(ret.val) - 1) : row_cmp(ret.val[i], ret.val[i + 1]) # "Greater"
            /\ sort_rows(ret.val) = ret.val

\* a file, a directory, the same file again and another directory were
\* sorted: both copies of the file are in the output
C29_Witness ==
    /\ call.fn = "sort_rows"
    /\ call.input = << [info |-> [fname |-> <<66>>, ftype |-> "File"]],
                       [info |-> [fname |-> <<98, 47, 97>>, ftype |-> "Directory"]],
                       [info |-> [fname |-> <<66>>, ftype |-> "File"]],
                       [info |-> [fname |-> <<97>>, ftype |-> "Directory"]] >>
    /\ ret.val = << [info |-> [fname |-> <<97>>, ftype |-> "Directory"]],
                    [info |-> [fname |-> <<98, 47, 97>>, ftype |-> "Directory"]],
                    [info |-> [fname |-> <<66>>, ftype |-> "File"]],
                    [info |-> [fname |-> <<66>>, ftype |-> "File"]] >>

\* the execute bit that applies to the invoker: the owner's when the user
\* ids are equal, else the group's when the group ids are equal, else the
\* others'
ExecBitFor(st) ==
    IF Me.uid = st.st_uid THEN (st.st_mode \div 64) % 2
    ELSE IF Me.gid = st.st_gid THEN (st.st_mode \div 8) % 2
    ELSE st.st_mode % 2

\* C24: in a full listing the Acls column of a row is the three octal
\* digits of the captured mode, one space, and one digit 0..7 equal to
\* 4*r + 2*w + x: r and w say whether the path opens for reading and for
\* writing, and x is the execute bit of the class the invoker falls in
\* (owner before group before others) in the metadata of what the path
\* resolves to, 0 when it resolves to nothing.
C24_EffectiveAccessDigit ==
    (Built /\ args.full) =>
        \A i \in DOMAIN file_rows :
            LET row == file_rows[i]
                e == EntryOf(row)
                r == IF e.readable THEN 1 ELSE 0
                w == IF e.writable THEN 1 ELSE 0
                x == IF e.resolves = "none" THEN 0 ELSE ExecBitFor(e.stat)
            IN  /\ 4 * r + 2 * w + x \in 0..7
                /\ get_acls_me(e) = DecStr(4 * r + 2 * w + x)
                /\ row.render.acls
                     = get_acls_all(row.info.stat_res.st_mode) \o <<32>> \o DecStr(4 * r + 2 * w + x)
                /\ Len(row.render.acls) = 5

\* a file of mode 0o611 that the invoker owns and can open both ways:
\* "611 6", the execute bits of group and others do not count
C24_Witness ==
    /\ Built /\ args.full
    /\ \E i \in DOMAIN file_rows :
          /\ file_rows[i].info.stat_res.st_mode = 33161
          /\ file_rows[i].info.stat_res.st_uid = Me.uid
          /\ EntryOf(file_rows[i]).readable /\ EntryOf(file_rows[i]).writable
          /\ file_rows[i].render.acls = <<54, 49, 49, 32, 54>>

\* C27: every built row has FileType Directory exactly when it has
\* ContentType Directory; a link that resolves to a directory has both, a
\* broken link and every other entry has FileType File and another
\* ContentType.
C27_FileTypeDirIffContentTypeDir ==
    Built =>
        \A i \in DOMAIN file_rows :
            LET info == file_rows[i].info
                e == EntryOf(file_rows[i])
            IN  /\ (info.ftype = "Directory") <=> (info.content_type = "Directory")
                /\ info.ftype \in {"Directory", "File"}
                /\ (e.symlink /\ e.resolves = "dir") => info.ftype = "Directory"
                /\ e.resolves # "dir"
                      => (info.ftype = "File" /\ info.content_type # "Directory")

\* a row was built for a symbolic link that resolves to a directory
C27_Witness ==
    /\ Built
    /\ \E i \in DOMAIN file_rows :
          /\ EntryOf(file_rows[i]).symlink
          /\ EntryOf(file_rows[i]).resolves = "dir"
          /\ file_rows[i].info.ftype = "Directory"
          /\ file_rows[i].info.content_type = "Directory"

(***************************************************************************)
(* build_row under the harness while another process changes the          *)
(* permission bits of the entry between get_row_info and the renderers.   *)
(***************************************************************************)
\* chmod(perm) by another process: the low nine bits of the mode of what
\* the path resolves to
Chmod(e, perm) ==
    LET set(st) == [st EXCEPT !.st_mode = (st.st_mode \div 512) * 512 + perm]
    IN  IF e.resolves = "none" THEN e
        ELSE IF e.symlink THEN [e EXCEPT !.stat = set(e.stat)]
        ELSE [e EXCEPT !.stat = set(e.stat), !.lstat = set(e.lstat)]

\* the modes the other process sets: 0o644, 0o755
ChmodModes == {420, 493}

CallBuildRow ==
    /\ call = NoCall
    /\ pc = "harness"
    /\ \E e \in EntryPool, full \in BOOLEAN :
         \E after \in {e} \cup {Chmod(e, m) : m \in ChmodModes} :
            /\ call' = [fn |-> "build_row", before |-> e, after |-> after, full |-> full]
            /\ ret' = Returned(build_row_between(<<e>>, <<after>>, e.name,
                                                 UserGroupCache_new, full))
    /\ UNCHANGED process

SpecRace == Init /\ [][CallBuildRow]_vars

\* C22: every row build_row returns is the row of one state of the
\* filesystem: all its columns are what build_row gives either on the
\* state get_row_info saw or on the state the renderers ran in, so a chmod
\* between the two never shows in one column and not in another.
C22_RowFromOneMetadataState ==
    (call.fn = "build_row" /\ ret.val.some) =>
        \E s \in {call.before, call.after} :
            ret.val.val.render
                = build_row(Dir(<<s>>), s.name, UserGroupCache_new, call.full).val.render

\* the widths get_col_paddings holds after its loop has processed k rows
WidthsAfter(k) == paddings_loop(Take(file_rows, k), ColPaddings_default)

\* the fields of ColPaddings
WidthFields == DOMAIN ColPaddings_default

\* C25: the widths of get_col_paddings are 0 before the first row, after
\* every further row each is at least what it was and never negative, and
\* the widths after the last row are the ones every line of the output is
\* padded with; until the rows are rendered no width is set and no cell is
\* padded.
C25_WidthsGrowThenFrozen ==
    /\ Rendered =>
          /\ \A c \in WidthFields : WidthsAfter(0)[c] = 0
          /\ \A k \in 0..(Len(file_rows) - 1) : \A c \in WidthFields :
                /\ WidthsAfter(k)[c] >= 0
                /\ WidthsAfter(k)[c] <= WidthsAfter(k + 1)[c]
                /\ WidthsAfter(k + 1)[c] >= Len(file_rows[k + 1].render[c])
          /\ col_widths = WidthsAfter(Len(file_rows))
          /\ out_text = Join([i \in DOMAIN file_rows |->
                                 render_cols(file_rows[i], WidthsAfter(Len(file_rows)),
                                             args.full)], <<10>>)
    /\ pc \in {"start", "listed", "no_listing", "built", "sorted"} =>
          (col_widths = ColPaddings_default /\ out_text = <<>>)

\* rows were rendered of which one made a width grow and a later one was
\* narrower than the width reached before it, which stayed
C25_Witness ==
    /\ Rendered
    /\ \E c \in WidthFields : \E k \in 1..(Len(file_rows) - 1) :
          \E j \in (k + 1)..(Len(file_rows) - 1) :
             /\ WidthsAfter(k)[c] < WidthsAfter(k + 1)[c]
             /\ Len(file_rows[j + 1].render[c]) < WidthsAfter(j)[c]
             /\ col_widths[c] = WidthsAfter(j)[c]

\* the characters of s outside the colour sequences ESC [ digits m
StripAnsi(s) ==
    LET in_escape(i) == \E j \in 1..i : /\ s[j] = 27
                                        /\ \A k \in j..(i - 1) : s[k] # 109
        idx == [i \in DOMAIN s |-> IF in_escape(i) THEN -1 ELSE s[i]]
        visible(c) == c # -1
    IN  SelectSeq(idx, visible)

\* C26: in the output of render_rows, colour sequences removed, the cell of
\* every row in a displayed column whose computed width is not 0 is as many
\* characters long as that width, and all lines are equally long.
C26_CellsAsWideAsTheirColumn ==
    Rendered =>
        LET cols == get_cols_listing(args.full)
            line(i) == StripAnsi(render_cols(file_rows[i], col_widths, args.full))
        IN  /\ \A i \in DOMAIN file_rows : \A c \in DOMAIN cols :
                  get_col_padding(col_widths, cols[c]) > 0 =>
                      Len(StripAnsi(make_pretty(file_rows[i], cols[c], col_widths)))
                          = get_col_padding(col_widths, cols[c])
            /\ \A i \in DOMAIN file_rows : \A j \in DOMAIN file_rows :
                  Len(line(i)) = Len(line(j))

\* the fields of RenderedCols
RenderedFields ==
    {"acls", "owner", "filetype", "size", "timeiso", "srcname", "targetname", "preview"}

\* the columns build_row fills with a placeholder in compact mode
PlaceholderFields == {"acls", "owner", "filetype", "preview"}

\* C23 as stated: every built row has all 8 rendered columns, in compact
\* mode Acls, Owner, FileType and Preview are one space each, and in
\* neither mode is any of the 8 columns the empty string.
C23_NoRenderedColumnEmpty ==
    Built =>
        \A i \in DOMAIN file_rows :
            LET render == file_rows[i].render
            IN  /\ DOMAIN render = RenderedFields
                /\ ~args.full => \A c \in PlaceholderFields : render[c] = <<32>>
                /\ \A c \in RenderedFields : render[c] # <<>>

\* C23, amended: every built row has all 8 rendered columns; in compact
\* mode Acls, Owner, FileType and Preview are one space each, whatever the
\* entry, and no column is empty; in full mode every column but Preview is
\* non-empty, and Preview is empty exactly for an empty readable directory
\* and for a binary or text file whose first bytes hold nothing printable.
C23_OnlyFullPreviewCanBeEmpty ==
    Built =>
        \A i \in DOMAIN file_rows :
            LET row == file_rows[i]
                render == row.render
            IN  /\ DOMAIN render = RenderedFields
                /\ ~args.full =>
                      /\ \A c \in PlaceholderFields : render[c] = <<32>>
                      /\ \A c \in RenderedFields : render[c] # <<>>
                /\ args.full =>
                      /\ \A c \in RenderedFields \ {"preview"} : render[c] # <<>>
                      /\ render.preview = <<>>
                            => EmptyPreviewCase(EntryOf(row), row.info.content_type)

\* a compact row was built for an empty readable directory, whose preview
\* in full mode is empty: its Preview and Acls are the placeholder
C23_Witness ==
    /\ Built
    /\ ~args.full
    /\ Len(file_rows) = 1
    /\ EntryOf(file_rows[1]).resolves = "dir"
    /\ EntryOf(file_rows[1]).readable
    /\ EntryOf(file_rows[1]).children = <<>>
    /\ preview_directory(EntryOf(file_rows[1])) = <<>>
    /\ file_rows[1].render.preview = <<32>>
    /\ file_rows[1].render.acls = <<32>>

\* the 8 column identities of ColType
ColTypes ==
    {"Acls", "Owner", "FileType", "Size", "TimeIso", "SrcName", "TargetName", "Preview"}

\* the columns of cols as a set
ColSet(cols) == {cols[i] : i \in DOMAIN cols}

\* C30: get_col_defs has one entry for each of the 8 column identities;
\* the alignment of an entry is what get_col_align gives for its column
\* (Right for Size only); its only_full flag is set exactly for the columns
\* get_cols_listing(false) leaves out, all of which get_cols_listing(true)
\* has, and those are the columns build_row fills with one space in compact
\* mode.
C30_ColDefsAgreeWithRenderer ==
    /\ Len(get_col_defs) = 8
    /\ {get_col_defs[i].name : i \in DOMAIN get_col_defs} = ColTypes
    /\ ColSet(get_cols_listing(TRUE)) = ColTypes
    /\ \A i \in DOMAIN get_col_defs :
          LET def == get_col_defs[i]
          IN  /\ def.align = get_col_align(def.name)
              /\ (def.align = "Right") <=> (def.name = "Size")
              /\ def.only_full <=> def.name \notin ColSet(get_cols_listing(FALSE))
              /\ (Built /\ ~args.full /\ def.only_full) =>
                    \A r \in DOMAIN file_rows : get_col_value(file_rows[r], def.name) = <<32>>
              /\ (Built /\ ~args.full /\ ~def.only_full) =>
                    \A r \in DOMAIN file_rows :
                        get_col_value(file_rows[r], def.name)
                            = get_col_value(build_row(fs, file_rows[r].info.fname,
                                                      UserGroupCache_new, TRUE).val, def.name)

\* a compact row was built for a file whose Acls in full mode is "611 6"
\* and whose Preview is "h i": both columns hold the placeholder
C30_Witness ==
    /\ Built
    /\ ~args.full
    /\ Len(file_rows) = 1
    /\ build_row(fs, file_rows[1].info.fname, UserGroupCache_new, TRUE).val.render.acls
          = <<54, 49, 49, 32, 54>>
    /\ build_row(fs, file_rows[1].info.fname, UserGroupCache_new, TRUE).val.render.preview
          = <<104, 32, 105>>
    /\ file_rows[1].render.acls = <<32>>
    /\ file_rows[1].render.preview = <<32>>

(***************************************************************************)
(* get_dir_listing under the harness, on relative and absolute start      *)
(* paths.                                                                  *)
(***************************************************************************)
\* the start paths get_dir_listing is called with: ".", "./", "./sub",
\* "sub/", "../x", "/", "/usr", "/usr/", ".//sub"
StartSamples ==
    {<<46>>, <<46, 47>>, <<46, 47, 115, 117, 98>>, <<115, 117, 98, 47>>,
     <<46, 46, 47, 120>>, <<47>>, <<47, 117, 115, 114>>, <<47, 117, 115, 114, 47>>,
     <<46, 47, 47, 115, 117, 98>>}

CallGetDirListing ==
    /\ call = NoCall
    /\ pc = "harness"
    /\ \E start \in StartSamples, filter \in Filters,
          dir \in {NoDir} \cup {Dir(l) : l \in Listings(DirPool, MaxEntries)} :
         /\ call' = [fn |-> "get_dir_listing", start |-> start, filter |-> filter, dir |-> dir]
         /\ ret' = Returned(get_dir_listing(dir, start, filter))
    /\ UNCHANGED process

SpecListing == Init /\ [][CallGetDirListing]_vars

\* the components of a path, the empty ones included
RECURSIVE SplitSlash(_)
SplitSlash(s) ==
    IF \A i \in DOMAIN s : s[i] # 47 THEN <<s>>
    ELSE LET k == CHOOSE i \in DOMAIN s : s[i] = 47 /\ \A j \in 1..(i - 1) : s[j] # 47
         IN  <<SubSeq(s, 1, k - 1)>> \o SplitSlash(SubSeq(s, k + 1, Len(s)))

\* the directory reached from the directory `at` by the components comps:
\* an empty component and "." stay, ".." goes up, a name goes down
RECURSIVE Walk(_, _)
Walk(at, comps) ==
    IF comps = <<>> THEN at
    ELSE LET c == Head(comps)
         IN  IF c = <<>> \/ c = <<46>> THEN Walk(at, Tail(comps))
             ELSE IF c = <<46, 46>>
             THEN Walk(IF at = <<>> THEN at ELSE SubSeq(at, 1, Len(at) - 1), Tail(comps))
             ELSE Walk(Append(at, c), Tail(comps))

\* the working directory of the process, /home/u, as components from the root
Cwd == << <<104, 111, 109, 101>>, <<117>> >>

\* the file a path names, as components from the root, no component being
\* a link: an absolute path starts at the root, another at Cwd
Resolve(path) ==
    IF path # <<>> /\ path[1] = 47 THEN Walk(<<>>, SplitSlash(path))
    ELSE Walk(Cwd, SplitSlash(path))

\* C28: for every start path get_dir_listing accepts, the i-th path it
\* returns names the child of the start directory with the name of the i-th
\* matching entry: it resolves to the same file as start, "/" and that name.
C28_PathsNameChildrenOfStart ==
    (call.fn = "get_dir_listing" /\ ret.val.some) =>
        LET names == [i \in DOMAIN call.dir.entries |-> call.dir.entries[i].name]
            hit(n) == Matches(n, call.filter)
            kept == SelectSeq(names, hit)
        IN  /\ Len(ret.val.val) = Len(kept)
            /\ \A i \in DOMAIN kept :
                  Resolve(ret.val.val[i]) = Resolve(call.start \o <<47>> \o kept[i])
====
